---- MODULE Spec2Model ----
(***************************************************************************)
(* CitySpark: the learning engine (core/ai_learning/engine.py) and the     *)
(* urban art generator (assets/urban_art/generator.py) as state machines.  *)
(*                                                                         *)
(* Conventions                                                             *)
(*  - a Python dict with a fixed key set is a record; a dict used as a     *)
(*    store is a function whose DOMAIN is its key set (student_profiles,   *)
(*    learning_paths) or, where iteration order is observable, a sequence  *)
(*    of <<key, value>> entries in insertion order (art_gallery);          *)
(*  - a key that may be missing from a dict (updated_at, popularity_score  *)
(*    of an art piece) is a sequence of length 0 (missing) or 1 (present); *)
(*  - datetime.now() reads the variable now, a wall clock in whole         *)
(*    seconds that the action Tick advances;                               *)
(*  - numbers with a fractional part are kept exactly as scaled integers:  *)
(*    relevance scores in hundredths, mastery in thousandths, popularity   *)
(*    in tenths;                                                           *)
(*  - call is the most recent call: its name, arguments, whether it raised *)
(*    and what it returned;                                                *)
(*  - requests is the state of the HTTP layer: the requests the event loop *)
(*    holds and the count of those answered.  The engine and the generator *)
(*    do not know it: a specification of direct calls leaves it unchanged. *)
(***************************************************************************)
EXTENDS Integers, Sequences, FiniteSets, Bags, TLC

VARIABLES
    now,               \* wall clock read by datetime.now(), in seconds
    student_profiles,  \* CitySparkLearningEngine.student_profiles
    learning_paths,    \* CitySparkLearningEngine.learning_paths
    art_gallery,       \* UrbanArtGenerator.art_gallery (ordered dict)
    generation_history,\* UrbanArtGenerator.generation_history
    collections,       \* content of assets/urban_art/collections.json
    call,              \* the most recent call and its outcome
    requests,          \* HTTP requests received, not yet handled or answered
    events             \* AnalyticsEngine.events

vars == <<now, student_profiles, learning_paths, art_gallery,
          generation_history, collections, call, requests, events>>

learnVars == <<student_profiles, learning_paths>>
artVars == <<art_gallery, generation_history, collections>>

-----------------------------------------------------------------------------
(* Bounds of the model *)

MaxTime == 1
MaxHistory == 2
MaxLikes == 1
MaxViews == 2
MaxCollections == 2
MaxGenerations == 2
MaxAnalyses == 1
MaxScoreStep == 24
MaxInterests == 6
MaxWeaknesses == 5
MaxRequests == 3
MaxSessions == 2
MaxEvents == 3
MaxQuizzes == 4

-----------------------------------------------------------------------------
(* Generic helpers *)

Min(a, b) == IF a <= b THEN a ELSE b
Max(a, b) == IF a >= b THEN a ELSE b

Range(s) == {s[i] : i \in 1..Len(s)}

\* s[:n] of Python for a list s, negative n included
Slice(s, n) ==
    IF n >= 0 THEN SubSeq(s, 1, Min(n, Len(s)))
    ELSE SubSeq(s, 1, Max(Len(s) + n, 0))

\* a descending sort that puts an element before the elements of equal key
RECURSIVE InsertDescUnstable(_, _)
InsertDescUnstable(sorted, x) ==
    IF sorted = <<>> THEN <<x>>
    ELSE IF Head(sorted).key > x.key
         THEN <<Head(sorted)>> \o InsertDescUnstable(Tail(sorted), x)
         ELSE <<x>> \o sorted

\* list.sort(key=..., reverse=True) on a list of [key, item] pairs: Python's
\* sort is stable and reverse=True keeps the order of equal keys, so each
\* element goes after every element whose key is greater or equal
RECURSIVE InsertDesc(_, _)
InsertDesc(sorted, x) ==
    IF sorted = <<>> THEN <<x>>
    ELSE IF Head(sorted).key >= x.key
         THEN <<Head(sorted)>> \o InsertDesc(Tail(sorted), x)
         ELSE <<x>> \o sorted

RECURSIVE SortDescFrom(_, _)
SortDescFrom(acc, s) ==
    IF s = <<>> THEN acc
    ELSE SortDescFrom(InsertDesc(acc, Head(s)), Tail(s))

SortDesc(s) == SortDescFrom(<<>>, s)

\* the record of a call: its name and arguments, whether it raised, what it
\* returned and, for a call that stores its result under a key, the entry
\* the store held under that key until then (a sequence of length 0 or 1)
Raised(op, args) ==
    [op |-> op, args |-> args, replaced |-> <<>>, raised |-> TRUE,
     result |-> <<>>]
Returned(op, args, result) ==
    [op |-> op, args |-> args, replaced |-> <<>>, raised |-> FALSE,
     result |-> result]
Stored(op, args, replaced, result) ==
    [op |-> op, args |-> args, replaced |-> replaced, raised |-> FALSE,
     result |-> result]

\* d.get(k) of a Python dict used as a store, as a sequence of length 0 or 1
Find(d, k) == IF k \in DOMAIN d THEN <<d[k]>> ELSE <<>>

-----------------------------------------------------------------------------
(* core/ai_learning/engine.py *)

\* _calculate_mastery_level, in thousandths: the multipliers are tenths
DifficultyMultiplier(difficulty) ==
    CASE difficulty = "beginner" -> 10
      [] difficulty = "medium" -> 12
      [] difficulty = "advanced" -> 15
      [] difficulty = "expert" -> 20
      [] OTHER -> 10

\* _calculate_mastery_level without the clamp
MasteryUnclamped(score, difficulty) ==
    score * DifficultyMultiplier(difficulty)

_calculate_mastery_level(score, difficulty) ==
    Min(score * DifficultyMultiplier(difficulty), 1000)

\* _generate_recommendations
_generate_recommendations(score) ==
    IF score < 60
    THEN <<"Review fundamental concepts", "Schedule additional practice sessions">>
    ELSE IF score < 80
    THEN <<"Focus on challenging topics", "Try different learning approaches">>
    ELSE <<"Advance to next difficulty level", "Help peers with similar topics">>

\* _suggest_next_difficulty with the thresholds counted to the easier label
_suggest_next_difficulty_inclusive(mastery_level) ==
    IF mastery_level <= 300 THEN "beginner"
    ELSE IF mastery_level <= 600 THEN "medium"
    ELSE IF mastery_level <= 800 THEN "advanced"
    ELSE "expert"

\* _suggest_next_difficulty, mastery in thousandths
_suggest_next_difficulty(mastery_level) ==
    IF mastery_level < 300 THEN "beginner"
    ELSE IF mastery_level < 600 THEN "medium"
    ELSE IF mastery_level < 800 THEN "advanced"
    ELSE "expert"

\* create_student_profile as an update that keeps the stored history
NewProfileKeepsHistory(student_id, profile_data, t) ==
    [student_id |-> student_id,
     learning_style |-> profile_data.learning_style,
     skill_level |-> profile_data.skill_level,
     interests |-> profile_data.interests,
     goals |-> profile_data.goals,
     strengths |-> profile_data.strengths,
     weaknesses |-> profile_data.weaknesses,
     progress_history |->
         IF student_id \in DOMAIN student_profiles
         THEN student_profiles[student_id].progress_history ELSE <<>>,
     created_at |-> t,
     updated_at |-> t]

\* the profile create_student_profile builds
NewProfile(student_id, profile_data, t) ==
    [student_id |-> student_id,
     learning_style |-> profile_data.learning_style,
     skill_level |-> profile_data.skill_level,
     interests |-> profile_data.interests,
     goals |-> profile_data.goals,
     strengths |-> profile_data.strengths,
     weaknesses |-> profile_data.weaknesses,
     progress_history |-> <<>>,
     created_at |-> t,
     updated_at |-> t]

\* d[k] = v of a Python dict used as a store
Put(d, k, v) == [x \in DOMAIN d \cup {k} |-> IF x = k THEN v ELSE d[x]]

create_student_profile(student_id, profile_data) ==
    LET profile == NewProfile(student_id, profile_data, now) IN
    /\ student_profiles' = Put(student_profiles, student_id, profile)
    /\ call' = Stored("create_student_profile", <<student_id, profile_data>>,
                      Find(student_profiles, student_id), profile)
    /\ UNCHANGED <<now, learning_paths, artVars>>

\* efficiency = score / max(time_spent, 1) if time_spent > 0 else 0,
\* kept as the fraction <<numerator, denominator>>
Efficiency(score, time_spent) ==
    IF time_spent > 0 THEN <<score, Max(time_spent, 1)>> ELSE <<0, 1>>

\* the analysis record analyze_performance builds
Analysis(student_id, performance_data, t) ==
    LET score == performance_data.score
        mastery_level ==
            _calculate_mastery_level(score, performance_data.difficulty)
    IN [student_id |-> student_id,
        performance_score |-> score,
        efficiency |-> Efficiency(score, performance_data.time_spent),
        mastery_level |-> mastery_level,
        completion_rate |-> performance_data.completion_rate,
        recommendations |-> _generate_recommendations(score),
        next_difficulty |-> _suggest_next_difficulty(mastery_level),
        analyzed_at |-> t]

\* analyze_performance storing only the latest analysis
RecordAnalysisOverwrites(profile, analysis, t) ==
    [profile EXCEPT !.progress_history = <<analysis>>, !.updated_at = t]

\* profile["progress_history"].append(analysis); profile["updated_at"] = now
RecordAnalysis(profile, analysis, t) ==
    [profile EXCEPT !.progress_history = Append(@, analysis),
                    !.updated_at = t]

\* analyze_performance putting the analysis at the front of the history
analyze_performance_prepending(student_id, performance_data) ==
    /\ UNCHANGED <<now, learning_paths, artVars>>
    /\ IF student_id \notin DOMAIN student_profiles
       THEN /\ call' = Raised("analyze_performance",
                               <<student_id, performance_data>>)
            /\ UNCHANGED student_profiles
       ELSE LET analysis == Analysis(student_id, performance_data, now) IN
            /\ student_profiles' =
                   [student_profiles EXCEPT
                       ![student_id].progress_history = <<analysis>> \o @,
                       ![student_id].updated_at = now]
            /\ call' = Returned("analyze_performance",
                                <<student_id, performance_data>>, analysis)

analyze_performance(student_id, performance_data) ==
    /\ UNCHANGED <<now, learning_paths, artVars>>
    /\ IF student_id \notin DOMAIN student_profiles
       THEN /\ call' = Raised("analyze_performance",
                               <<student_id, performance_data>>)
            /\ UNCHANGED student_profiles
       ELSE LET analysis == Analysis(student_id, performance_data, now) IN
            /\ student_profiles' =
                   [student_profiles EXCEPT
                       ![student_id] = RecordAnalysis(@, analysis, now)]
            /\ call' = Returned("analyze_performance",
                                <<student_id, performance_data>>, analysis)

\* base_modules of _create_learning_modules
BaseModules(subject) ==
    <<[name |-> "Introduction to " \o subject, type |-> "video", duration |-> 30],
      [name |-> subject \o " Fundamentals", type |-> "interactive", duration |-> 45],
      [name |-> "Practice Exercises - " \o subject, type |-> "exercise",
       duration |-> 60],
      [name |-> "Advanced " \o subject \o " Concepts", type |-> "reading",
       duration |-> 40],
      [name |-> subject \o " Project", type |-> "project", duration |-> 120]>>

\* the modules _create_learning_modules adds for a learning style
StyleModules(learning_style, subject) ==
    IF learning_style = "visual"
    THEN <<[name |-> "Visual Guide to " \o subject, type |-> "infographic",
            duration |-> 20],
           [name |-> subject \o " Diagrams & Charts", type |-> "visual",
            duration |-> 25]>>
    ELSE IF learning_style = "auditory"
    THEN <<[name |-> subject \o " Audio Lecture", type |-> "audio",
            duration |-> 35],
           [name |-> subject \o " Podcast Series", type |-> "podcast",
            duration |-> 45]>>
    ELSE <<>>

\* _create_learning_modules: modules starts empty, base_modules is built
\* and never added to it, the style modules are appended, modules is returned
_create_learning_modules(profile, subject, goals) ==
    LET modules == <<>>
        base_modules == BaseModules(subject)
    IN modules \o StyleModules(profile.learning_style, subject)

\* skill_multipliers without the entry of advanced
SkillMultiplierWithoutAdvanced(skill_level) ==
    CASE skill_level = "beginner" -> 15
      [] skill_level = "intermediate" -> 10
      [] skill_level = "expert" -> 6
      [] OTHER -> 10

\* skill_multipliers of _estimate_duration, in tenths; the products
\* 40 * 1.5, 40 * 1.0, 40 * 0.8 and 40 * 0.6 are the doubles 60.0, 40.0,
\* 32.0 and 24.0, so int() of them is the integer quotient taken here
SkillMultiplier(skill_level) ==
    CASE skill_level = "beginner" -> 15
      [] skill_level = "intermediate" -> 10
      [] skill_level = "advanced" -> 8
      [] skill_level = "expert" -> 6
      [] OTHER -> 10

\* _estimate_duration: int(base_duration * multiplier), base_duration = 40
_estimate_duration(profile, subject) ==
    (40 * SkillMultiplier(profile.skill_level)) \div 10

\* _create_difficulty_progression
_create_difficulty_progression(profile) ==
    CASE profile.skill_level = "intermediate" ->
             <<"medium", "medium", "advanced", "advanced">>
      [] profile.skill_level = "advanced" ->
             <<"advanced", "expert", "expert", "expert">>
      [] profile.skill_level = "expert" ->
             <<"expert", "expert", "expert", "expert">>
      [] OTHER -> <<"beginner", "beginner", "medium", "medium">>

\* _suggest_activities
_suggest_activities(profile, subject) ==
    IF profile.learning_style = "visual"
    THEN <<[type |-> "video", name |-> "Visual " \o subject \o " Tutorial"],
           [type |-> "infographic", name |-> subject \o " Mind Map"]>>
    ELSE IF profile.learning_style = "auditory"
    THEN <<[type |-> "podcast", name |-> subject \o " Audio Lesson"],
           [type |-> "discussion", name |-> subject \o " Study Group"]>>
    ELSE <<[type |-> "reading", name |-> subject \o " Textbook"],
           [type |-> "exercise", name |-> subject \o " Practice Problems"]>>

\* _plan_assessments, weights in tenths
_plan_assessments(subject) ==
    <<[type |-> "quiz", module |-> 1, weight |-> 1],
      [type |-> "assignment", module |-> 3, weight |-> 2],
      [type |-> "project", module |-> 5, weight |-> 3],
      [type |-> "final_exam", module |-> 5, weight |-> 4]>>

\* the key of learning_paths: f"{student_id}_{subject}"
PathKey(student_id, subject) == student_id \o "_" \o subject

\* the learning path generate_learning_path builds
LearningPath(profile, student_id, subject, goals, t) ==
    [student_id |-> student_id,
     subject |-> subject,
     goals |-> goals,
     modules |-> _create_learning_modules(profile, subject, goals),
     estimated_duration |-> _estimate_duration(profile, subject),
     difficulty_progression |-> _create_difficulty_progression(profile),
     learning_activities |-> _suggest_activities(profile, subject),
     assessment_points |-> _plan_assessments(subject),
     created_at |-> t]

\* the profile looked up with self.student_profiles.get(student_id, {}) in
\* place of the membership test: a path is built and stored for any id
generate_learning_path_unchecked(student_id, subject, goals) ==
    LET profile == IF student_id \in DOMAIN student_profiles
                   THEN student_profiles[student_id]
                   ELSE [learning_style |-> "visual", skill_level |-> "beginner"]
        learning_path == LearningPath(profile, student_id, subject, goals, now)
        key == PathKey(student_id, subject)
    IN /\ UNCHANGED <<now, student_profiles, artVars>>
       /\ learning_paths' = Put(learning_paths, key, learning_path)
       /\ call' = Stored("generate_learning_path",
                         <<student_id, subject, goals>>,
                         Find(learning_paths, key), learning_path)

generate_learning_path(student_id, subject, goals) ==
    /\ UNCHANGED <<now, student_profiles, artVars>>
    /\ IF student_id \notin DOMAIN student_profiles
       THEN /\ call' = Raised("generate_learning_path",
                               <<student_id, subject, goals>>)
            /\ UNCHANGED learning_paths
       ELSE LET learning_path ==
                    LearningPath(student_profiles[student_id], student_id,
                                 subject, goals, now)
                key == PathKey(student_id, subject)
            IN /\ learning_paths' = Put(learning_paths, key, learning_path)
               /\ call' = Stored("generate_learning_path",
                                 <<student_id, subject, goals>>,
                                 Find(learning_paths, key), learning_path)

\* GET /paths/{student_id}/{subject}: the stored path, or 404
get_learning_path(student_id, subject) ==
    LET path_key == PathKey(student_id, subject) IN
    /\ UNCHANGED <<now, learnVars, artVars>>
    /\ IF path_key \notin DOMAIN learning_paths
       THEN call' = Raised("get_learning_path", <<student_id, subject>>)
       ELSE call' = Returned("get_learning_path", <<student_id, subject>>,
                             learning_paths[path_key])

\* _recommend_content without the loop over the weaknesses
_recommend_content_interests_only(profile) ==
    [i \in 1..Len(profile.interests) |->
        [type |-> "content",
         title |-> "Advanced " \o profile.interests[i],
         description |-> "Deep dive into " \o profile.interests[i]
                             \o " based on your interests",
         relevance_score |-> 90,
         difficulty |-> "medium"]]

\* _recommend_content: one item per interest, then one per weakness;
\* relevance_score in hundredths
_recommend_content(profile) ==
    [i \in 1..Len(profile.interests) |->
        [type |-> "content",
         title |-> "Advanced " \o profile.interests[i],
         description |-> "Deep dive into " \o profile.interests[i]
                             \o " based on your interests",
         relevance_score |-> 90,
         difficulty |-> "medium"]]
    \o
    [i \in 1..Len(profile.weaknesses) |->
        [type |-> "content",
         title |-> "Master " \o profile.weaknesses[i],
         description |-> "Strengthen your " \o profile.weaknesses[i] \o " skills",
         relevance_score |-> 85,
         difficulty |-> "beginner"]]

\* _recommend_activities
_recommend_activities(profile) ==
    <<[type |-> "activity",
       title |-> "Collaborative Project",
       description |-> "Work with peers on a real-world project",
       relevance_score |-> 80],
      [type |-> "activity",
       title |-> "Quiz Challenge",
       description |-> "Test your knowledge with interactive quizzes",
       relevance_score |-> 75]>>

\* _recommend_peer_learning
_recommend_peer_learning(profile) ==
    <<[type |-> "peer",
       title |-> "Study Group",
       description |-> "Join a study group with similar goals",
       relevance_score |-> 70]>>

\* recommendations.sort(key=lambda x: x.get("relevance_score", 0), reverse=True)
SortByRelevance(recommendations) ==
    LET keyed == [i \in 1..Len(recommendations) |->
                     [key |-> recommendations[i].relevance_score,
                      item |-> recommendations[i]]]
        sorted == SortDesc(keyed)
    IN [i \in 1..Len(sorted) |-> sorted[i].item]

\* the list get_recommendations returns for a profile
Recommendations(profile) ==
    Slice(SortByRelevance(_recommend_content(profile)
                          \o _recommend_activities(profile)
                          \o _recommend_peer_learning(profile)), 10)

get_recommendations(student_id) ==
    /\ UNCHANGED <<now, learnVars, artVars>>
    /\ IF student_id \notin DOMAIN student_profiles
       THEN call' = Raised("get_recommendations", <<student_id>>)
       ELSE call' = Returned("get_recommendations", <<student_id>>,
                             Recommendations(student_profiles[student_id]))

\* dict.get(key, default) of a dict given by the caller
Field(d, key, default) == IF key \in DOMAIN d THEN d[key] ELSE default

\* _identify_success_factors
_identify_success_factors(profile, learning_path) ==
    (IF profile.learning_style # ""
     THEN <<"Learning style: " \o profile.learning_style>> ELSE <<>>)
    \o (IF Len(profile.interests) > 2
        THEN <<"Strong interest alignment">> ELSE <<>>)
    \o (IF Len(profile.goals) > 1 THEN <<"Clear learning goals">> ELSE <<>>)

\* _identify_risk_factors taking 60 hours for a long duration
_identify_risk_factors_from_60(profile, learning_path) ==
    (IF Field(learning_path, "estimated_duration", 0) >= 60
     THEN <<"Long learning duration may impact completion">> ELSE <<>>)
    \o (IF Len(profile.weaknesses) > 3
        THEN <<"Multiple weakness areas may require extra support">>
        ELSE <<>>)

\* _identify_risk_factors
_identify_risk_factors(profile, learning_path) ==
    (IF Field(learning_path, "estimated_duration", 0) > 60
     THEN <<"Long learning duration may impact completion">> ELSE <<>>)
    \o (IF Len(profile.weaknesses) > 3
        THEN <<"Multiple weakness areas may require extra support">>
        ELSE <<>>)

\* _suggest_improvements
_suggest_improvements(profile, learning_path) ==
    <<"Set regular study schedules",
      "Use gamified learning approaches",
      "Seek peer collaboration opportunities">>

\* the values np.random.uniform draws: completion_probability in
\* [0.7, 0.95] and expected_mastery in [0.75, 0.95], in thousandths, and the
\* factor of estimated_time in [0.8, 1.2], in hundredths
Draws ==
    [completion : {700, 950}, mastery : {750, 950}, time_factor : {80, 120}]

\* predictions of predict_outcomes; estimated_time in hundredths of an hour
Predictions(profile, learning_path, draw) ==
    [completion_probability |-> draw.completion,
     expected_mastery |-> draw.mastery,
     estimated_time |->
         Field(learning_path, "estimated_duration", 40) * draw.time_factor,
     success_factors |-> _identify_success_factors(profile, learning_path),
     risk_factors |-> _identify_risk_factors(profile, learning_path),
     improvement_suggestions |-> _suggest_improvements(profile, learning_path)]

\* predict_outcomes keeping the predictions in the profile's history
predict_outcomes_recording(student_id, learning_path, draw) ==
    /\ UNCHANGED <<now, learning_paths, artVars>>
    /\ IF student_id \notin DOMAIN student_profiles
       THEN /\ call' = Raised("predict_outcomes", <<student_id, learning_path>>)
            /\ UNCHANGED student_profiles
       ELSE LET predictions == Predictions(student_profiles[student_id],
                                           learning_path, draw) IN
            /\ student_profiles' =
                   [student_profiles EXCEPT
                       ![student_id].progress_history = Append(@, predictions)]
            /\ call' = Returned("predict_outcomes",
                                <<student_id, learning_path>>, predictions)

predict_outcomes(student_id, learning_path, draw) ==
    /\ UNCHANGED <<now, learnVars, artVars>>
    /\ IF student_id \notin DOMAIN student_profiles
       THEN call' = Raised("predict_outcomes", <<student_id, learning_path>>)
       ELSE call' = Returned("predict_outcomes", <<student_id, learning_path>>,
                             Predictions(student_profiles[student_id],
                                         learning_path, draw))

-----------------------------------------------------------------------------
(* assets/urban_art/generator.py *)

\* The ordered dict art_gallery: a sequence of [key, value] entries in
\* insertion order; storing under a key it holds keeps the key's position.
Keys(g) == {g[i].key : i \in 1..Len(g)}
IndexOf(g, k) == CHOOSE i \in 1..Len(g) : g[i].key = k
Get(g, k) == g[IndexOf(g, k)].value
Set(g, k, v) ==
    IF k \in Keys(g) THEN [g EXCEPT ![IndexOf(g, k)].value = v]
    ELSE Append(g, [key |-> k, value |-> v])
Values(g) == [i \in 1..Len(g) |-> g[i].value]
Lookup(g, k) == IF k \in Keys(g) THEN <<Get(g, k)>> ELSE <<>>

\* datetime.now().strftime('%Y%m%d_%H%M%S'): one string per second
Stamp(t) == ToString(t)

\* str.lower() of a prompt word
Lower(word) ==
    CASE word = "Street" -> "street"
      [] word = "City" -> "city"
      [] word = "Modern" -> "modern"
      [] word = "URBAN" -> "urban"
      [] OTHER -> word

\* str.title() of a prompt word
TitleCase(word) ==
    CASE word = "futuristic" -> "Futuristic"
      [] word = "city" -> "City"
      [] word = "skyline" -> "Skyline"
      [] word = "mural" -> "Mural"
      [] word = "art" -> "Art"
      [] word = "music" -> "Music"
      [] word = "general" -> "General"
      [] word = "modern" -> "Modern"
      [] word = "URBAN" -> "Urban"
      [] word = "green" -> "Green"
      [] word = "garden" -> "Garden"
      [] word = "contemporary" -> "Contemporary"
      [] word = "building" -> "Building"
      [] word = "cityscape" -> "Cityscape"
      [] OTHER -> word

\* " ".join(words)
RECURSIVE Join(_)
Join(words) ==
    IF words = <<>> THEN ""
    ELSE IF Len(words) = 1 THEN words[1]
    ELSE words[1] \o " " \o Join(Tail(words))

\* _load_style_presets: the name and the description of a preset style
StylePresets == {"modern", "graffiti", "abstract", "eco_art"}

StyleName(style) ==
    CASE style = "modern" -> "Modern Urban"
      [] style = "graffiti" -> "Graffiti Style"
      [] style = "abstract" -> "Abstract Urban"
      [] style = "eco_art" -> "Eco Urban Art"
      [] style = "cubism" -> "Cubism"
      [] OTHER -> style

StyleDescription(style) ==
    CASE style = "modern" ->
             "Contemporary urban art with clean lines and bold colors"
      [] style = "graffiti" -> "Classic street art with spray paint techniques"
      [] style = "abstract" -> "Abstract interpretation of urban landscapes"
      [] style = "eco_art" -> "Environmentally conscious urban art themes"
      [] OTHER -> ""

\* _generate_title: the first 3 words of the prompt, title-cased
_generate_title(prompt, style) ==
    LET title_words == SubSeq(prompt, 1, Min(3, Len(prompt)))
        title == Join([i \in 1..Len(title_words) |-> TitleCase(title_words[i])])
    IN title \o " - " \o StyleName(style) \o " Style"

\* _generate_description
_generate_description(prompt, style) ==
    "AI-generated urban art inspired by: " \o Join(prompt) \o ". "
        \o StyleDescription(style)

urban_keywords ==
    {"city", "urban", "street", "building", "skyline", "modern", "contemporary"}

\* a list's elements with the number of times each occurs
SeqToBag(s) ==
    [x \in Range(s) |-> Cardinality({i \in 1..Len(s) : s[i] = x})]

\* the list tags of _generate_tags before its duplicates are removed: the
\* style, the lower-cased prompt words that are urban keywords in prompt
\* order, the tags of the style
TagList(prompt, style) ==
    LET prompt_words == [i \in 1..Len(prompt) |-> Lower(prompt[i])]
        IsKeyword(word) == word \in urban_keywords
    IN <<style>>
       \o SelectSeq(prompt_words, IsKeyword)
       \o (CASE style = "graffiti" -> <<"street_art", "spray_paint", "wall_art">>
             [] style = "eco_art" -> <<"environment", "sustainable", "green">>
             [] style = "modern" -> <<"contemporary", "minimalist", "clean">>
             [] OTHER -> <<>>)

\* _generate_tags returning tags as built
_generate_tags_as_built(prompt, style) == SeqToBag(TagList(prompt, style))

\* _generate_tags: list(set(tags)).  A list of tags is kept as the bag of its
\* elements: the order of list(set(...)) is the hash order, which no
\* operation reads.
_generate_tags(prompt, style) == SetToBag(Range(TagList(prompt, style)))

\* the art piece of generate_art counting its creation as a view
ArtPieceViewed(generation_id, prompt, style, user_id, t) ==
    [id |-> generation_id,
     prompt |-> prompt,
     style |-> style,
     user_id |-> user_id,
     title |-> _generate_title(prompt, style),
     description |-> _generate_description(prompt, style),
     tags |-> _generate_tags(prompt, style),
     created_at |-> t,
     likes |-> 0,
     views |-> 1,
     featured |-> FALSE,
     updated_at |-> <<>>,
     popularity_score |-> <<>>]

\* the art piece generate_art builds; the dict has no updated_at and no
\* popularity_score key yet.  metadata, image_url and thumbnail_url, which
\* no operation reads, are left out.
ArtPiece(generation_id, prompt, style, user_id, t) ==
    [id |-> generation_id,
     prompt |-> prompt,
     style |-> style,
     user_id |-> user_id,
     title |-> _generate_title(prompt, style),
     description |-> _generate_description(prompt, style),
     tags |-> _generate_tags(prompt, style),
     created_at |-> t,
     likes |-> 0,
     views |-> 0,
     featured |-> FALSE,
     updated_at |-> <<>>,
     popularity_score |-> <<>>]

\* generation_id = f"art_{datetime.now().strftime('%Y%m%d_%H%M%S')}"
GenerationId(t) == "art_" \o Stamp(t)

generate_art(prompt, style, user_id) ==
    LET generation_id == GenerationId(now)
        art_piece == ArtPiece(generation_id, prompt, style, user_id, now)
    IN /\ art_gallery' = Set(art_gallery, generation_id, art_piece)
       /\ generation_history' = Append(generation_history, generation_id)
       /\ call' = Stored("generate_art", <<prompt, style, user_id>>,
                         Lookup(art_gallery, generation_id), art_piece)
       /\ UNCHANGED <<now, learnVars, collections>>

\* get_art_piece: art_gallery.get(art_id)
get_art_piece(art_id) ==
    /\ call' = Returned("get_art_piece", <<art_id>>, Lookup(art_gallery, art_id))
    /\ UNCHANGED <<now, learnVars, artVars>>

\* update_art_piece taking the id, too, from the updates, which have none
UpdatedPieceWithoutId(art_piece, updates, t) ==
    [f \in DOMAIN art_piece |->
        IF f = "updated_at" THEN <<t>>
        ELSE IF f \in DOMAIN updates THEN updates[f]
        ELSE IF f = "id" THEN ""
        ELSE art_piece[f]]

\* art_piece.update(updates); art_piece["updated_at"] = datetime.now()
UpdatedPiece(art_piece, updates, t) ==
    [f \in DOMAIN art_piece |->
        IF f = "updated_at" THEN <<t>>
        ELSE IF f \in DOMAIN updates THEN updates[f]
        ELSE art_piece[f]]

update_art_piece(art_id, updates) ==
    /\ UNCHANGED <<now, learnVars, generation_history, collections>>
    /\ IF art_id \notin Keys(art_gallery)
       THEN /\ call' = Returned("update_art_piece", <<art_id, updates>>, <<>>)
            /\ UNCHANGED art_gallery
       ELSE LET art_piece == UpdatedPiece(Get(art_gallery, art_id), updates, now)
            IN /\ art_gallery' = Set(art_gallery, art_id, art_piece)
               /\ call' = Returned("update_art_piece", <<art_id, updates>>,
                                   <<art_piece>>)

\* art_piece["likes"] = 1 in place of art_piece["likes"] += 1
LikedPieceFromZero(art_piece, t) ==
    [art_piece EXCEPT !.likes = 1, !.updated_at = <<t>>]

\* art_piece["likes"] += 1; art_piece["updated_at"] = datetime.now()
LikedPiece(art_piece, t) ==
    [art_piece EXCEPT !.likes = @ + 1, !.updated_at = <<t>>]

like_art(art_id, user_id) ==
    /\ UNCHANGED <<now, learnVars, generation_history, collections>>
    /\ IF art_id \notin Keys(art_gallery)
       THEN /\ call' = Raised("like_art", <<art_id, user_id>>)
            /\ UNCHANGED art_gallery
       ELSE LET art_piece == LikedPiece(Get(art_gallery, art_id), now)
            IN /\ art_gallery' = Set(art_gallery, art_id, art_piece)
               /\ call' = Returned("like_art", <<art_id, user_id>>, art_piece)

\* view_art written like like_art, touching updated_at
ViewedPieceTouched(art_piece, t) ==
    [art_piece EXCEPT !.views = @ + 1, !.updated_at = <<t>>]

\* art_piece["views"] += 1
ViewedPiece(art_piece, t) ==
    [art_piece EXCEPT !.views = @ + 1]

view_art(art_id, user_id) ==
    /\ UNCHANGED <<now, learnVars, generation_history, collections>>
    /\ IF art_id \notin Keys(art_gallery)
       THEN /\ call' = Raised("view_art", <<art_id, user_id>>)
            /\ UNCHANGED art_gallery
       ELSE LET art_piece == ViewedPiece(Get(art_gallery, art_id), now)
            IN /\ art_gallery' = Set(art_gallery, art_id, art_piece)
               /\ call' = Returned("view_art", <<art_id, user_id>>, art_piece)

\* feature_art without art_piece["updated_at"] = datetime.now()
FeaturedPieceUntouched(art_piece, featured, t) ==
    [art_piece EXCEPT !.featured = featured]

\* art_piece["featured"] = featured; art_piece["updated_at"] = datetime.now()
FeaturedPiece(art_piece, featured, t) ==
    [art_piece EXCEPT !.featured = featured, !.updated_at = <<t>>]

feature_art(art_id, featured) ==
    /\ UNCHANGED <<now, learnVars, generation_history, collections>>
    /\ IF art_id \notin Keys(art_gallery)
       THEN /\ call' = Returned("feature_art", <<art_id, featured>>, <<>>)
            /\ UNCHANGED art_gallery
       ELSE LET art_piece == FeaturedPiece(Get(art_gallery, art_id), featured, now)
            IN /\ art_gallery' = Set(art_gallery, art_id, art_piece)
               /\ call' = Returned("feature_art", <<art_id, featured>>,
                                   <<art_piece>>)

\* the tags filter passing a piece that has any one of the tags
PassesAnyTag(art, filters) ==
    /\ "style" \in DOMAIN filters => art.style = filters.style
    /\ "user_id" \in DOMAIN filters => art.user_id = filters.user_id
    /\ ("tags" \in DOMAIN filters /\ filters.tags # <<>>) =>
           \E i \in 1..Len(filters.tags) : BagIn(filters.tags[i], art.tags)
    /\ "featured" \in DOMAIN filters => art.featured = filters.featured

\* the list comprehensions of get_gallery: a piece stays in the list if it
\* passes the filter of every key that filters holds
Passes(art, filters) ==
    /\ "style" \in DOMAIN filters => art.style = filters.style
    /\ "user_id" \in DOMAIN filters => art.user_id = filters.user_id
    /\ "tags" \in DOMAIN filters =>
           \A i \in 1..Len(filters.tags) : BagIn(filters.tags[i], art.tags)
    /\ "featured" \in DOMAIN filters => art.featured = filters.featured

\* gallery.sort(key=lambda x: x["created_at"], reverse=True)
SortByCreation(gallery) ==
    LET keyed == [i \in 1..Len(gallery) |->
                     [key |-> gallery[i].created_at, item |-> gallery[i]]]
        sorted == SortDesc(keyed)
    IN [i \in 1..Len(sorted) |-> sorted[i].item]

\* filters is a dict with any of the keys style, user_id, tags, featured; an
\* empty dict is falsy and filters nothing, as does None
get_gallery(filters) ==
    LET gallery == SelectSeq(Values(art_gallery),
                             LAMBDA art : Passes(art, filters))
    IN /\ call' = Returned("get_gallery", <<filters>>, SortByCreation(gallery))
       /\ UNCHANGED <<now, learnVars, artVars>>

\* a popularity score with the weights of likes and views exchanged
PopularityScoreSwapped(art) == (art.views * 20) + art.likes

\* (art["likes"] * 2) + (art["views"] * 0.1), in tenths
PopularityScore(art) == (art.likes * 20) + art.views

\* for art in gallery: art["popularity_score"] = ...: the score is written
\* into the stored pieces themselves
Scored(g) ==
    [i \in 1..Len(g) |->
        [g[i] EXCEPT !.value.popularity_score = <<PopularityScore(g[i].value)>>]]

\* gallery.sort(key=lambda x: x["popularity_score"], reverse=True)
SortByPopularity(gallery) ==
    LET keyed == [i \in 1..Len(gallery) |->
                     [key |-> gallery[i].popularity_score[1],
                      item |-> gallery[i]]]
        sorted == SortDesc(keyed)
    IN [i \in 1..Len(sorted) |-> sorted[i].item]

get_popular_art(limit) ==
    LET scored == Scored(art_gallery) IN
    /\ art_gallery' = scored
    /\ call' = Returned("get_popular_art", <<limit>>,
                        Slice(SortByPopularity(Values(scored)), limit))
    /\ UNCHANGED <<now, learnVars, generation_history, collections>>

\* create_collection keeping every requested id
AllArtIds(art_ids) == art_ids

\* valid_art_ids = [art_id for art_id in art_ids if art_id in self.art_gallery]
ValidArtIds(art_ids) ==
    SelectSeq(art_ids, LAMBDA art_id : art_id \in Keys(art_gallery))

\* the collection create_collection builds
Collection(name, description, art_ids, user_id, t) ==
    [id |-> "collection_" \o Stamp(t),
     name |-> name,
     description |-> description,
     art_ids |-> ValidArtIds(art_ids),
     user_id |-> user_id,
     created_at |-> t,
     updated_at |-> t,
     public |-> FALSE,
     likes |-> 0,
     views |-> 0]

\* json.dump(..., default=str): the datetimes are written as strings
JsonRecord(collection) ==
    [collection EXCEPT !.created_at = ToString(@), !.updated_at = ToString(@)]

\* create_collection writing the file without reading it
create_collection_unread(name, description, art_ids, user_id) ==
    LET collection == Collection(name, description, art_ids, user_id, now)
    IN /\ collections' = [exists |-> TRUE,
                          records |-> <<JsonRecord(collection)>>]
       /\ call' = Returned("create_collection",
                           <<name, description, art_ids, user_id>>, collection)
       /\ UNCHANGED <<now, learnVars, art_gallery, generation_history>>

\* collections.json is read if it exists, the record appended, the file
\* written back
create_collection(name, description, art_ids, user_id) ==
    LET collection == Collection(name, description, art_ids, user_id, now)
        loaded == IF collections.exists THEN collections.records ELSE <<>>
    IN /\ collections' = [exists |-> TRUE,
                          records |-> Append(loaded, JsonRecord(collection))]
       /\ call' = Returned("create_collection",
                           <<name, description, art_ids, user_id>>, collection)
       /\ UNCHANGED <<now, learnVars, art_gallery, generation_history>>

\* the wall clock advances between calls
Tick ==
    /\ now < MaxTime
    /\ now' = now + 1
    /\ call' = Returned("tick", <<>>, <<>>)
    /\ UNCHANGED <<learnVars, artVars>>

-----------------------------------------------------------------------------
(* integration/omniscient_hub/connector.py *)

\* self.session.post(endpoint, json=payload, timeout=30) and
\* response.raise_for_status(): the hub answers, or the call ends in a
\* requests.RequestException (connection error, timeout, HTTP error status)
HubOutcomes == {"response", "RequestException"}

\* what the hub answers is the hub's own: one list and one dict stand for it
HubList == <<[type |-> "content", title |-> "Chosen by the hub"]>>
HubDict == [status |-> "ok", model |-> "hub"]

\* the record of a connector call; the outcome of the hub call is kept as the
\* last of its arguments
HubCall(op, args, outcome, raised, result) ==
    [op |-> op, args |-> Append(args, outcome), replaced |-> <<>>,
     raised |-> raised, result |-> result]

\* a connector call changes nothing but the record of the call
HubFrame == UNCHANGED <<now, learnVars, artVars, requests, events>>

\* _generate_fallback_recommendations: one item for each of the first 3
\* interests; confidence_score in hundredths
_generate_fallback_recommendations(student_profile) ==
    LET interests == Field(student_profile, "interests", <<>>)
        skill_level == Field(student_profile, "skill_level", "beginner")
        top == Slice(interests, 3)
    IN [i \in 1..Len(top) |->
           [type |-> "content",
            title |-> "Advanced " \o TitleCase(top[i]) \o " Course",
            description |-> "Learn advanced " \o top[i] \o " concepts",
            difficulty |-> skill_level,
            estimated_duration |-> "4 weeks",
            confidence_score |-> 75,
            source |-> "fallback"]]

get_learning_recommendations(student_profile, context, outcome) ==
    /\ HubFrame
    /\ call' = HubCall("get_learning_recommendations",
                       <<student_profile, context>>, outcome, FALSE,
                       IF outcome = "response" THEN HubList
                       ELSE _generate_fallback_recommendations(student_profile))

\* datetime.fromisoformat(timestamp).hour: the hour of an ISO timestamp, as
\* a sequence of length 1; <<>> when the string is no ISO timestamp and
\* fromisoformat raises ValueError
IsoHour(timestamp) ==
    CASE timestamp = "2024-03-01T09:30:00" -> <<9>>
      [] timestamp = "2024-03-01T20:15:00" -> <<20>>
      [] OTHER -> <<>>

\* the number of places of a sequence that hold a value
Count(s, v) == Cardinality({i \in 1..Len(s) : s[i] = v})

\* max(counts.items(), key=lambda x: x[1])[0] over the counts of the values
\* of a non-empty list: the most frequent value, the one met first among
\* equals
MostCommon(s) ==
    s[CHOOSE i \in 1..Len(s) :
          /\ \A j \in 1..Len(s) : Count(s, s[j]) <= Count(s, s[i])
          /\ \A j \in 1..(i - 1) : Count(s, s[j]) < Count(s, s[i])]

\* the sessions of learning_data with a non-empty timestamp
Stamped(learning_data) ==
    SelectSeq(learning_data,
              LAMBDA session : Field(session, "timestamp", "") # "")

\* _find_most_active_hour raises where fromisoformat does
MostActiveHourRaises(learning_data) ==
    \E i \in 1..Len(Stamped(learning_data)) :
        IsoHour(Stamped(learning_data)[i].timestamp) = <<>>

\* _find_most_active_hour
_find_most_active_hour(learning_data) ==
    LET stamped == Stamped(learning_data)
        hours == [i \in 1..Len(stamped) |-> IsoHour(stamped[i].timestamp)[1]]
    IN IF hours = <<>> THEN 14 ELSE MostCommon(hours)

\* _infer_learning_style
_infer_learning_style(learning_data) ==
    IF learning_data = <<>> THEN "visual"
    ELSE LET types == [i \in 1..Len(learning_data) |->
                          Field(learning_data[i], "content_type", "unknown")]
             most_common_type == MostCommon(types)
         IN CASE most_common_type = "video" -> "visual"
              [] most_common_type = "text" -> "reading"
              [] most_common_type = "interactive" -> "kinesthetic"
              [] most_common_type = "audio" -> "auditory"
              [] OTHER -> "visual"

RECURSIVE SumDurations(_)
SumDurations(learning_data) ==
    IF learning_data = <<>> THEN 0
    ELSE Field(Head(learning_data), "duration", 0)
             + SumDurations(Tail(learning_data))

\* the dict _generate_fallback_analysis returns when it returns;
\* average_session_length is the exact quotient, kept as <<sum, sessions>>,
\* confidence_level in hundredths
_generate_fallback_analysis(learning_data) ==
    IF learning_data = <<>> THEN [status |-> "insufficient_data"]
    ELSE [total_sessions |-> Len(learning_data),
          average_session_length |->
              <<SumDurations(learning_data), Len(learning_data)>>,
          most_active_hour |-> _find_most_active_hour(learning_data),
          learning_style |-> _infer_learning_style(learning_data),
          confidence_level |-> 60,
          source |-> "fallback"]

\* a ValueError of fromisoformat inside the except clause leaves
\* analyze_learning_pattern as an exception
analyze_learning_pattern(student_id, learning_data, outcome) ==
    /\ HubFrame
    /\ call' =
           IF outcome = "response"
           THEN HubCall("analyze_learning_pattern",
                        <<student_id, learning_data>>, outcome, FALSE, HubDict)
           ELSE IF learning_data # <<>> /\ MostActiveHourRaises(learning_data)
           THEN HubCall("analyze_learning_pattern",
                        <<student_id, learning_data>>, outcome, TRUE, <<>>)
           ELSE HubCall("analyze_learning_pattern",
                        <<student_id, learning_data>>, outcome, FALSE,
                        _generate_fallback_analysis(learning_data))

\* completion_probabilities.get(skill_level, 0.7), in hundredths
FallbackCompletion(skill_level) ==
    CASE skill_level = "beginner" -> 85
      [] skill_level = "intermediate" -> 75
      [] skill_level = "advanced" -> 65
      [] skill_level = "expert" -> 55
      [] OTHER -> 70

\* _generate_fallback_predictions; probabilities in hundredths,
\* estimated_completion_time (path_duration * 1.1) in tenths
_generate_fallback_predictions(student_profile, learning_path) ==
    LET skill_level == Field(student_profile, "skill_level", "beginner")
        path_duration == Field(learning_path, "estimated_duration", 40)
    IN [completion_probability |-> FallbackCompletion(skill_level),
        expected_mastery |-> 80,
        estimated_completion_time |-> path_duration * 11,
        risk_factors |-> <<"limited_api_integration">>,
        success_factors |-> <<"structured_learning_path">>,
        confidence_level |-> 50,
        source |-> "fallback"]

predict_learning_outcomes(student_profile, learning_path, outcome) ==
    /\ HubFrame
    /\ call' = HubCall("predict_learning_outcomes",
                       <<student_profile, learning_path>>, outcome, FALSE,
                       IF outcome = "response" THEN HubDict
                       ELSE _generate_fallback_predictions(student_profile,
                                                           learning_path))

\* _generate_fallback_content: one item for each of the first 5 interests;
\* rating in tenths, relevance_score in hundredths
_generate_fallback_content(content_preferences) ==
    LET interests == Field(content_preferences, "interests", <<"general">>)
        top == Slice(interests, 5)
    IN [i \in 1..Len(top) |->
           [type |-> "course",
            title |-> "Introduction to " \o TitleCase(top[i]),
            description |-> "Learn the fundamentals of " \o top[i],
            difficulty |-> "beginner",
            rating |-> 45,
            relevance_score |-> 70,
            source |-> "fallback"]]

get_personalized_content(student_id, content_preferences, outcome) ==
    /\ HubFrame
    /\ call' = HubCall("get_personalized_content",
                       <<student_id, content_preferences>>, outcome, FALSE,
                       IF outcome = "response" THEN HubList
                       ELSE _generate_fallback_content(content_preferences))

-----------------------------------------------------------------------------
(* core/analytics/engine.py *)

\* timedelta(days=1) in the seconds of the clock
SecondsPerDay == 86400

\* the hour of day at which the clock starts, and datetime.hour of a time
StartHour == 21
HourOf(t) == (StartHour + t \div 3600) % 24

\* [e for e in events if e["type"] in types]
OfTypes(evts, types) ==
    LET IsOfTypes(e) == e.type \in types
    IN SelectSeq(evts, IsOfTypes)

\* sum(e.get("data", {}).get(key, 0) for e in events)
RECURSIVE SumData(_, _)
SumData(evts, key) ==
    IF evts = <<>> THEN 0
    ELSE Field(Head(evts).data, key, 0) + SumData(Tail(evts), key)

\* track_event keeping the log at two events
track_event_capped(event_type, user_id, data) ==
    LET event == [id |-> "event_" \o Stamp(now),
                  type |-> event_type,
                  user_id |-> user_id,
                  timestamp |-> now,
                  data |-> data]
    IN /\ events' = Append(IF Len(events) >= 2 THEN Tail(events) ELSE events,
                           event)
       /\ call' = Returned("track_event", <<event_type, user_id, data>>, event)
       /\ UNCHANGED <<now, learnVars, artVars, requests>>

\* track_event; timestamp is datetime.now().isoformat(), which
\* datetime.fromisoformat reads back as the same instant and whose string
\* order is the order of the instants, kept as the time of the clock
track_event(event_type, user_id, data) ==
    LET event == [id |-> "event_" \o Stamp(now),
                  type |-> event_type,
                  user_id |-> user_id,
                  timestamp |-> now,
                  data |-> data]
    IN /\ events' = Append(events, event)
       /\ call' = Returned("track_event", <<event_type, user_id, data>>, event)
       /\ UNCHANGED <<now, learnVars, artVars, requests>>

\* _calculate_learning_time
_calculate_learning_time(evts) ==
    SumData(OfTypes(evts, {"learning_session", "video_watch", "quiz_attempt"}),
            "duration_minutes")

\* _calculate_completion_rate over all the events instead of the started ones
_calculate_completion_rate_of_all(evts) ==
    LET completed_events == OfTypes(evts, {"module_completed"})
    IN IF evts # <<>>
       THEN <<Len(completed_events) * 100, Len(evts)>>
       ELSE <<0, 1>>

\* _calculate_completion_rate: (completed / started) * 100 or 0, kept as the
\* fraction <<numerator, denominator>>
_calculate_completion_rate(evts) ==
    LET started_events == OfTypes(evts, {"module_started"})
        completed_events == OfTypes(evts, {"module_completed"})
    IN IF started_events # <<>>
       THEN <<Len(completed_events) * 100, Len(started_events)>>
       ELSE <<0, 1>>

\* _calculate_average_score: sum(scores) / len(scores) or 0, kept as the
\* fraction <<numerator, denominator>>
_calculate_average_score(evts) ==
    LET quiz_events == OfTypes(evts, {"quiz_completed"})
    IN IF quiz_events # <<>>
       THEN <<SumData(quiz_events, "score"), Len(quiz_events)>>
       ELSE <<0, 1>>

\* _calculate_engagement_score
_calculate_engagement_score(evts) ==
    Min(Len(OfTypes(evts, {"video_watch", "quiz_attempt", "discussion_post",
                           "assignment_submit"})) * 5, 100)

\* the user's events from cutoff_date = now - timedelta(days=days) on
WindowEvents(user_id, days, t) ==
    LET InWindow(e) == /\ e.user_id = user_id
                       /\ e.timestamp >= t - days * SecondsPerDay
    IN SelectSeq(events, InWindow)

calculate_user_metrics(user_id, days) ==
    LET user_events == WindowEvents(user_id, days, now)
    IN /\ call' = Returned("calculate_user_metrics", <<user_id, days>>,
                  [user_id |-> user_id,
                   period_days |-> days,
                   total_events |-> Len(user_events),
                   learning_time_minutes |-> _calculate_learning_time(user_events),
                   completion_rate |-> _calculate_completion_rate(user_events),
                   average_score |-> _calculate_average_score(user_events),
                   engagement_score |-> _calculate_engagement_score(user_events)])
       /\ UNCHANGED <<now, learnVars, artVars, requests, events>>

\* _is_night_learner: more than 0.6 of the learning events fall in the
\* hours 19 to 23
_is_night_learner(evts) ==
    LET learning_events == OfTypes(evts, {"learning_session", "video_watch"})
        evening_events ==
            Cardinality({i \in 1..Len(learning_events) :
                            HourOf(learning_events[i].timestamp) \in 19..23})
    IN /\ learning_events # <<>>
       /\ evening_events * 10 > 6 * Len(learning_events)

\* list.sort(key=lambda x: x["timestamp"]): a stable sort, earliest first
RECURSIVE InsertByTimestamp(_, _)
InsertByTimestamp(sorted, e) ==
    IF sorted = <<>> THEN <<e>>
    ELSE IF sorted[Len(sorted)].timestamp <= e.timestamp THEN Append(sorted, e)
    ELSE Append(InsertByTimestamp(SubSeq(sorted, 1, Len(sorted) - 1), e),
                sorted[Len(sorted)])

RECURSIVE SortByTimestamp(_)
SortByTimestamp(evts) ==
    IF evts = <<>> THEN <<>>
    ELSE InsertByTimestamp(SortByTimestamp(SubSeq(evts, 1, Len(evts) - 1)),
                           evts[Len(evts)])

\* _is_improving that takes equal averages for an improvement
_is_improving_or_level(evts) ==
    LET quiz_events == SortByTimestamp(OfTypes(evts, {"quiz_completed"}))
        n == Len(quiz_events)
    IN /\ n >= 3
       /\ SumData(SubSeq(quiz_events, n - 2, n), "score") * 3
              >= SumData(SubSeq(quiz_events, 1, 3), "score") * 3

\* _is_improving: the mean score of quiz_events[-3:] exceeds that of
\* quiz_events[:3]; the list sorted is a list of its own, not the log
_is_improving(evts) ==
    LET quiz_events == SortByTimestamp(OfTypes(evts, {"quiz_completed"}))
        n == Len(quiz_events)
    IN /\ n >= 3
       /\ SumData(SubSeq(quiz_events, n - 2, n), "score") * 3
              > SumData(SubSeq(quiz_events, 1, 3), "score") * 3

\* generate_insights: the insights by type and title
generate_insights(user_id) ==
    LET IsOfUser(e) == e.user_id = user_id
        user_events == SelectSeq(events, IsOfUser)
        insights ==
            (IF _is_night_learner(user_events)
             THEN <<[type |-> "learning_pattern", title |-> "Night Learner"]>>
             ELSE <<>>)
            \o (IF _is_improving(user_events)
                THEN <<[type |-> "progress_trend",
                        title |-> "Improving Performance"]>>
                ELSE <<>>)
    IN /\ call' = Returned("generate_insights", <<user_id>>, insights)
       /\ UNCHANGED <<now, learnVars, artVars, requests, events>>

-----------------------------------------------------------------------------
(* api/routes: the HTTP layer *)

\* uvicorn.run(app) serves every request on one event loop.  A request is in
\* flight from its receipt until its route handler has run; the handlers of
\* the routes below are coroutines without an await, so the loop runs each
\* from its first statement to its return before it runs anything else, and
\* it may run the handlers of the requests in flight in any order.
Receive(request) ==
    /\ requests' =
           [requests EXCEPT
               !.inflight =
                   Append(@, [seq |-> Len(requests.inflight)
                                          + Len(requests.answered) + 1,
                              request |-> request])]
    /\ UNCHANGED <<now, learnVars, artVars, call>>

\* the request at place i of those in flight is answered with a status
Answer(i, status) ==
    LET r == requests.inflight[i] IN
    [inflight |-> SubSeq(requests.inflight, 1, i - 1)
                      \o SubSeq(requests.inflight, i + 1, Len(requests.inflight)),
     answered |-> Append(requests.answered,
                         [seq |-> r.seq, request |-> r.request,
                          status |-> status])]

\* except ValueError: raise HTTPException(status_code=404)
Status(c) == IF c.raised THEN 404 ELSE 200

\* POST /gallery/{art_id}/like
like_art_piece(i) ==
    LET r == requests.inflight[i].request IN
    /\ r.route = "like_art_piece"
    /\ like_art(r.target, r.body)
    /\ requests' = Answer(i, Status(call'))

\* POST /gallery/{art_id}/view
view_art_piece(i) ==
    LET r == requests.inflight[i].request IN
    /\ r.route = "view_art_piece"
    /\ view_art(r.target, r.body)
    /\ requests' = Answer(i, Status(call'))

\* POST /analyze
analyze_performance_route(i) ==
    LET r == requests.inflight[i].request IN
    /\ r.route = "analyze_performance"
    /\ analyze_performance(r.target, r.body)
    /\ requests' = Answer(i, Status(call'))

-----------------------------------------------------------------------------
(* Inputs *)

StudentIds == {"ann", "ann_art"}

Subjects == {"history", "art_history"}

\* goals of POST /paths (LearningPathRequest)
GoalLists == {<<"learn basics", "build project">>}

\* request bodies of POST /profiles used with the learning-path generator
PathProfileData ==
    {[learning_style |-> "visual", skill_level |-> "beginner",
      interests |-> <<"AI", "art">>, goals |-> <<"learn programming">>,
      strengths |-> <<"creativity">>, weaknesses |-> <<"math">>],
     [learning_style |-> "auditory", skill_level |-> "intermediate",
      interests |-> <<>>, goals |-> <<>>,
      strengths |-> <<>>, weaknesses |-> <<>>],
     [learning_style |-> "kinesthetic", skill_level |-> "expert",
      interests |-> <<"music">>, goals |-> <<"learn basics", "build project">>,
      strengths |-> <<>>, weaknesses |-> <<>>],
     [learning_style |-> "reading", skill_level |-> "advanced",
      interests |-> <<>>, goals |-> <<>>,
      strengths |-> <<>>, weaknesses |-> <<>>]}

\* request bodies of POST /profiles (StudentProfileCreate)
ProfileData ==
    {[learning_style |-> "visual", skill_level |-> "beginner",
      interests |-> <<"AI", "art">>, goals |-> <<"learn programming">>,
      strengths |-> <<"creativity">>, weaknesses |-> <<"math">>],
     [learning_style |-> "auditory", skill_level |-> "intermediate",
      interests |-> <<>>, goals |-> <<>>,
      strengths |-> <<>>, weaknesses |-> <<>>]}

\* request bodies of POST /analyze (PerformanceData): score is a float the
\* route does not restrict, difficulty is any string
PerformanceInputs ==
    {[score |-> 100, time_spent |-> 45, difficulty |-> "expert",
      completion_rate |-> 100],
     [score |-> -10, time_spent |-> 0, difficulty |-> "beginner",
      completion_rate |-> 50]}

RankStudentIds == {"ann"}

\* request bodies of POST /analyze used with the analyzer alone: scores in
\* steps of 5 from -20 up, negative ones and ones above 100 included, and
\* every difficulty label of the multiplier table plus an unknown one
Scores == {5 * k : k \in (-4)..MaxScoreStep}

DifficultyLabels == {"beginner", "medium", "advanced", "expert", "hard"}

AnalyzerProfileData ==
    {[learning_style |-> "visual", skill_level |-> "beginner",
      interests |-> <<"AI", "art">>, goals |-> <<"learn programming">>,
      strengths |-> <<"creativity">>, weaknesses |-> <<"math">>]}

AnalyzerInputs ==
    {[score |-> sc, time_spent |-> 45, difficulty |-> d, completion_rate |-> 100] :
        sc \in Scores, d \in DifficultyLabels}

\* a bound on the length of a student's progress_history
HistoryRoom(student_id, max) ==
    student_id \in DOMAIN student_profiles =>
        Len(student_profiles[student_id].progress_history) < max

\* free-text labels: the n-th interest and the n-th weakness of a profile
InterestLabel(n) == "interest" \o ToString(n)
WeaknessLabel(n) == "weakness" \o ToString(n)

\* request bodies of POST /profiles used with the recommendation ranker:
\* every number of interests and of weaknesses up to the bounds
RankProfileData ==
    {[learning_style |-> "visual", skill_level |-> "beginner",
      interests |-> [i \in 1..n |-> InterestLabel(i)],
      goals |-> <<>>, strengths |-> <<>>,
      weaknesses |-> [i \in 1..m |-> WeaknessLabel(i)]] :
        n \in 0..MaxInterests, m \in 0..MaxWeaknesses}

\* request bodies of POST /generate (ArtGenerationRequest); user_id is
\* Optional: a sequence of length 0 (None) or 1
GenerationInputs ==
    {[prompt |-> <<"futuristic", "city", "skyline">>, style |-> "modern",
      user_id |-> <<"test_user">>],
     [prompt |-> <<"Street", "mural">>, style |-> "graffiti",
      user_id |-> <<>>]}

\* the requests of the specification of the tags: a style of each kind of
\* style tags and one without, prompts with capitals, with a keyword twice,
\* with the style's own name, with one of the style's tags, with a word that
\* only contains a keyword, and the empty prompt
TagInputs ==
    {[prompt |-> <<"Modern", "city", "City">>, style |-> "modern",
      user_id |-> <<>>],
     [prompt |-> <<"Street", "mural">>, style |-> "graffiti",
      user_id |-> <<>>],
     [prompt |-> <<"green", "URBAN", "garden">>, style |-> "eco_art",
      user_id |-> <<>>],
     [prompt |-> <<"contemporary", "building">>, style |-> "modern",
      user_id |-> <<>>],
     [prompt |-> <<"cityscape", "skyline">>, style |-> "abstract",
      user_id |-> <<>>],
     [prompt |-> <<>>, style |-> "cubism", user_id |-> <<>>]}

\* the art ids of the path parameter: every id generate_art can make within
\* the clock's range, and one that is never in the gallery
ArtIds == {GenerationId(t) : t \in 0..MaxTime} \cup {"art_missing"}

\* the art ids of the specification of all writes
TouchedIds == {GenerationId(0), "art_missing"}

UserIds == {"test_user"}

\* request bodies of PUT /gallery/{art_id} (ArtUpdateRequest, unset fields
\* excluded)
UpdateInputs == {[title |-> "Renamed", tags |-> SetToBag({"night"})]}

\* filters of get_gallery: a dict with any of the keys style, user_id, tags
\* and featured
FilterInputs ==
    {<<>>,
     [style |-> "modern"],
     [user_id |-> <<"test_user">>],
     [featured |-> TRUE],
     [tags |-> <<"night">>],
     [tags |-> <<"city", "street">>],
     [style |-> "modern", tags |-> <<"city", "modern">>],
     [style |-> "graffiti", user_id |-> <<>>, featured |-> FALSE]}

\* limit of GET /popular: any int
Limits == {-1, 0, 1, 2, 10}

\* art_ids of POST /collections (CollectionCreateRequest)
ArtIdLists ==
    {<<>>,
     <<GenerationId(0), "art_missing">>,
     <<"art_missing", GenerationId(1), GenerationId(0), GenerationId(1)>>,
     <<"art_missing">>}

\* the one request body the gallery specifications generate pieces from
GalleryInputs ==
    {[prompt |-> <<"futuristic", "city", "skyline">>, style |-> "modern",
      user_id |-> <<"test_user">>]}

\* bounds on the likes and on the views the gallery holds in all
RECURSIVE TotalLikes(_)
TotalLikes(g) ==
    IF g = <<>> THEN 0 ELSE Head(g).value.likes + TotalLikes(Tail(g))

RECURSIVE TotalViews(_)
TotalViews(g) ==
    IF g = <<>> THEN 0 ELSE Head(g).value.views + TotalViews(Tail(g))

LikesRoom == TotalLikes(art_gallery) < MaxLikes
ViewsRoom == TotalViews(art_gallery) < MaxViews
GenerationsRoom == Len(generation_history) < MaxGenerations

\* the arguments of track_event in the specification of the metrics: the
\* module events of two users and an event that is no module event
MetricInputs ==
    {[type |-> "module_started", user_id |-> "ann",
      data |-> [module |-> "python_basics"]],
     [type |-> "module_completed", user_id |-> "ann",
      data |-> [module |-> "python_basics"]],
     [type |-> "video_watch", user_id |-> "ann",
      data |-> [duration_minutes |-> 30]],
     [type |-> "module_completed", user_id |-> "bob",
      data |-> [module |-> "python_basics"]]}

\* the arguments of track_event in the specification of the insights: quiz
\* events with a low score, a high score and no score, and another user's
InsightInputs ==
    {[type |-> "quiz_completed", user_id |-> "ann", data |-> [score |-> 40]],
     [type |-> "quiz_completed", user_id |-> "ann", data |-> [score |-> 90]],
     [type |-> "quiz_completed", user_id |-> "ann", data |-> [quiz |-> "q1"]],
     [type |-> "quiz_completed", user_id |-> "bob", data |-> [score |-> 90]]}

AnalyticsUserIds == {"ann", "bob"}

\* days of calculate_user_metrics: the default and the shortest window
Days == {0, 30}

\* the learning_path bodies of POST /predict/{student_id}: any dict, among
\* them the paths the engine has stored
CallerPaths ==
    {[subject |-> "history"],
     [subject |-> "history", modules |-> <<>>, estimated_duration |-> 61]}

PathInputs == CallerPaths \cup {learning_paths[k] : k \in DOMAIN learning_paths}

\* the request bodies of the engine specification
EngineProfileData ==
    {[learning_style |-> "visual",
      skill_level |-> "beginner",
      interests |-> <<"AI", "art", "music">>,
      goals |-> <<"learn basics", "build project">>,
      strengths |-> <<>>,
      weaknesses |-> <<"math">>],
     [learning_style |-> "reading",
      skill_level |-> "expert",
      interests |-> <<>>,
      goals |-> <<>>,
      strengths |-> <<>>,
      weaknesses |-> <<"math", "physics", "writing", "drawing">>]}

EnginePerformanceInputs == {p \in PerformanceInputs : p.score = 100}

\* the arguments of the connector calls: profiles as the engine stores them
\* and as a caller may cut them down, contexts, sessions, preferences
HubProfiles ==
    {NewProfile("ann", d, 0) : d \in PathProfileData \cup EngineProfileData}
    \cup {[student_id |-> "ann"],
          [student_id |-> "ann", skill_level |-> "novice",
           interests |-> <<"art", "music", "city", "skyline">>]}

HubContexts == {[subject |-> "history"]}

Sessions ==
    {[duration |-> 30, content_type |-> "video",
      timestamp |-> "2024-03-01T09:30:00"],
     [duration |-> 45, content_type |-> "audio",
      timestamp |-> "2024-03-01T20:15:00"],
     [duration |-> 20, content_type |-> "text", timestamp |-> ""],
     [content_type |-> "interactive", timestamp |-> "yesterday evening"]}

RECURSIVE SeqsUpTo(_, _)
SeqsUpTo(S, n) ==
    IF n = 0 THEN {<<>>}
    ELSE SeqsUpTo(S, n - 1)
             \cup {Append(q, x) : q \in SeqsUpTo(S, n - 1), x \in S}

LearningData == SeqsUpTo(Sessions, MaxSessions)

ContentPreferences ==
    {[format |-> "video"],
     [interests |-> <<>>],
     [interests |-> <<"art", "music">>]}

\* the like, view and analyze requests of the HTTP layer
RequestInputs ==
    {[route |-> "like_art_piece", target |-> a, body |-> "test_user"] :
        a \in {GenerationId(0), "art_missing"}}
    \cup {[route |-> "view_art_piece", target |-> GenerationId(0),
           body |-> "test_user"]}
    \cup {[route |-> "analyze_performance", target |-> "ann", body |-> p] :
              p \in {q \in PerformanceInputs : q.score = 100}}

RequestsRoom ==
    Len(requests.inflight) + Len(requests.answered) < MaxRequests

-----------------------------------------------------------------------------
(* Specifications *)

Init ==
    /\ now = 0
    /\ student_profiles = <<>>
    /\ learning_paths = <<>>
    /\ art_gallery = <<>>
    /\ generation_history = <<>>
    /\ collections = [exists |-> FALSE, records |-> <<>>]
    /\ call = Returned("init", <<>>, <<>>)
    /\ requests = [inflight |-> <<>>, answered |-> <<>>]
    /\ events = <<>>

\* the profile store and the performance analyzer
NextProfiles ==
    /\ UNCHANGED <<requests, events>>
    /\ \/ \E s \in StudentIds, d \in ProfileData : create_student_profile(s, d)
       \/ \E s \in StudentIds, p \in PerformanceInputs :
              HistoryRoom(s, MaxHistory) /\ analyze_performance(s, p)
       \/ Tick

SpecProfiles == Init /\ [][NextProfiles]_vars

\* the performance analyzer on one student id, over the range of scores and
\* difficulty labels: an analysis reads nothing but its own arguments
NextAnalyzer ==
    /\ UNCHANGED <<requests, events>>
    /\ \/ \E s \in RankStudentIds, d \in AnalyzerProfileData :
              create_student_profile(s, d)
       \/ \E s \in RankStudentIds, p \in AnalyzerInputs :
              HistoryRoom(s, MaxAnalyses) /\ analyze_performance(s, p)

SpecAnalyzer == Init /\ [][NextAnalyzer]_vars

\* the profile store and the learning-path generator; no result of these
\* calls depends on the clock except the created_at they copy from it
NextPaths ==
    /\ UNCHANGED <<requests, events>>
    /\ \/ \E s \in StudentIds, d \in PathProfileData : create_student_profile(s, d)
       \/ \E s \in StudentIds, subject \in Subjects, goals \in GoalLists :
              generate_learning_path(s, subject, goals)
       \/ \E s \in StudentIds, subject \in Subjects : get_learning_path(s, subject)

SpecPaths == Init /\ [][NextPaths]_vars

\* the profile store and the recommendation ranker, for one student id: a
\* recommendation reads nothing but that student's profile
NextRank ==
    /\ UNCHANGED <<requests, events>>
    /\ \/ \E s \in RankStudentIds, d \in RankProfileData :
              create_student_profile(s, d)
       \/ \E s \in RankStudentIds : get_recommendations(s)

SpecRank == Init /\ [][NextRank]_vars

\* the art gallery under likes, views and the featured flag
NextGallery ==
    /\ UNCHANGED <<requests, events>>
    /\ \/ \E g \in GalleryInputs :
              GenerationsRoom /\ generate_art(g.prompt, g.style, g.user_id)
       \/ \E a \in ArtIds, u \in UserIds : LikesRoom /\ like_art(a, u)
       \/ \E a \in ArtIds, u \in UserIds : ViewsRoom /\ view_art(a, u)
       \/ \E a \in ArtIds, featured \in BOOLEAN : feature_art(a, featured)
       \/ Tick

SpecGallery == Init /\ [][NextGallery]_vars

\* the art gallery and its popularity ranking
NextPopular ==
    /\ UNCHANGED <<requests, events>>
    /\ \/ \E g \in GalleryInputs :
              GenerationsRoom /\ generate_art(g.prompt, g.style, g.user_id)
       \/ \E a \in ArtIds, u \in UserIds : LikesRoom /\ like_art(a, u)
       \/ \E a \in ArtIds, u \in UserIds : ViewsRoom /\ view_art(a, u)
       \/ \E limit \in Limits : get_popular_art(limit)
       \/ Tick

SpecPopular == Init /\ [][NextPopular]_vars

\* the art gallery under edits of its pieces
NextCuration ==
    /\ UNCHANGED <<requests, events>>
    /\ \/ \E g \in GalleryInputs :
              GenerationsRoom /\ generate_art(g.prompt, g.style, g.user_id)
       \/ \E a \in ArtIds, u \in UpdateInputs : update_art_piece(a, u)
       \/ \E a \in ArtIds, featured \in BOOLEAN : feature_art(a, featured)
       \/ Tick

SpecCuration == Init /\ [][NextCuration]_vars

\* every operation that writes a piece of the gallery, on the piece of the
\* first second and on an id the gallery never holds
NextPieces ==
    /\ UNCHANGED <<requests, events>>
    /\ \/ \E g \in GalleryInputs :
              GenerationsRoom /\ generate_art(g.prompt, g.style, g.user_id)
       \/ \E a \in TouchedIds, u \in UpdateInputs : update_art_piece(a, u)
       \/ \E a \in TouchedIds, u \in UserIds : LikesRoom /\ like_art(a, u)
       \/ \E a \in TouchedIds, u \in UserIds : ViewsRoom /\ view_art(a, u)
       \/ \E a \in TouchedIds, featured \in BOOLEAN : feature_art(a, featured)
       \/ \E a \in TouchedIds : get_art_piece(a)
       \/ Tick

SpecPieces == Init /\ [][NextPieces]_vars

\* the art gallery and its listing under filters
NextListing ==
    /\ UNCHANGED <<requests, events>>
    /\ \/ \E g \in GenerationInputs :
              GenerationsRoom /\ generate_art(g.prompt, g.style, g.user_id)
       \/ \E a \in TouchedIds, u \in UpdateInputs : update_art_piece(a, u)
       \/ \E a \in ArtIds : feature_art(a, TRUE)
       \/ \E filters \in FilterInputs : get_gallery(filters)
       \/ Tick

SpecListing == Init /\ [][NextListing]_vars

\* the art gallery and the tags of its pieces
NextTags ==
    /\ UNCHANGED <<requests, events>>
    /\ \/ \E g \in TagInputs :
              GenerationsRoom /\ generate_art(g.prompt, g.style, g.user_id)
       \/ \E a \in ArtIds : get_art_piece(a)
       \/ Tick

SpecTags == Init /\ [][NextTags]_vars

\* the art gallery and the collection catalog: a collection reads nothing of
\* the gallery but its keys
NextCollections ==
    /\ UNCHANGED <<requests, events>>
    /\ \/ \E g \in GenerationInputs :
              GenerationsRoom /\ generate_art(g.prompt, g.style, g.user_id)
       \/ \E ids \in ArtIdLists, u \in UserIds :
              /\ Len(collections.records) < MaxCollections
              /\ create_collection("Favourites", "My favourite pieces", ids, u)
       \/ Tick

SpecCollections == Init /\ [][NextCollections]_vars

\* every operation of the learning engine
NextEngine ==
    /\ UNCHANGED <<requests, events>>
    /\ \/ \E s \in StudentIds, d \in EngineProfileData :
              create_student_profile(s, d)
       \/ \E s \in StudentIds, p \in EnginePerformanceInputs :
              HistoryRoom(s, MaxAnalyses) /\ analyze_performance(s, p)
       \/ \E s \in StudentIds, goals \in GoalLists :
              generate_learning_path(s, "history", goals)
       \/ \E s \in StudentIds : get_recommendations(s)
       \/ \E s \in StudentIds, path \in PathInputs, draw \in Draws :
              predict_outcomes(s, path, draw)

SpecEngine == Init /\ [][NextEngine]_vars

\* the connector of the AI hub
NextHub ==
    \/ \E student_profile \in HubProfiles, context \in HubContexts,
          outcome \in HubOutcomes :
           get_learning_recommendations(student_profile, context, outcome)
    \/ \E student_id \in StudentIds, learning_data \in LearningData,
          outcome \in HubOutcomes :
           analyze_learning_pattern(student_id, learning_data, outcome)
    \/ \E student_profile \in HubProfiles, learning_path \in CallerPaths,
          outcome \in HubOutcomes :
           predict_learning_outcomes(student_profile, learning_path, outcome)
    \/ \E student_id \in StudentIds, content_preferences \in ContentPreferences,
          outcome \in HubOutcomes :
           get_personalized_content(student_id, content_preferences, outcome)

SpecHub == Init /\ [][NextHub]_vars

\* the analytics engine and the module events
NextMetrics ==
    \/ \E e \in MetricInputs :
           Len(events) < MaxEvents /\ track_event(e.type, e.user_id, e.data)
    \/ \E u \in AnalyticsUserIds, days \in Days : calculate_user_metrics(u, days)
    \/ \E u \in AnalyticsUserIds : generate_insights(u)
    \/ Tick /\ UNCHANGED <<requests, events>>

SpecMetrics == Init /\ [][NextMetrics]_vars

\* the analytics engine and the quiz events
NextInsights ==
    \/ \E e \in InsightInputs :
           Len(events) < MaxQuizzes /\ track_event(e.type, e.user_id, e.data)
    \/ \E u \in AnalyticsUserIds : calculate_user_metrics(u, 30)
    \/ \E u \in AnalyticsUserIds : generate_insights(u)
    \/ Tick /\ UNCHANGED <<requests, events>>

SpecInsights == Init /\ [][NextInsights]_vars

\* like, view and analyze requests served concurrently, on a gallery and a
\* profile store whose entries are made once and not replaced; no handler
\* reads the clock except for the timestamps it copies from it
NextRequests ==
    /\ UNCHANGED events
    /\ \/ \E g \in GalleryInputs :
              /\ art_gallery = <<>>
              /\ generate_art(g.prompt, g.style, g.user_id)
              /\ UNCHANGED requests
       \/ \E s \in RankStudentIds, d \in AnalyzerProfileData :
              /\ s \notin DOMAIN student_profiles
              /\ create_student_profile(s, d)
              /\ UNCHANGED requests
       \/ \E r \in RequestInputs : RequestsRoom /\ Receive(r)
       \/ \E i \in 1..Len(requests.inflight) : like_art_piece(i)
       \/ \E i \in 1..Len(requests.inflight) : view_art_piece(i)
       \/ \E i \in 1..Len(requests.inflight) : analyze_performance_route(i)

SpecRequests == Init /\ [][NextRequests]_vars

-----------------------------------------------------------------------------
(* Claims about the profile store and the performance analyzer *)

IsCall(c, op) == c.op = op /\ ~c.raised

\* the multiplier table of the claim, in tenths
ClaimedMultiplier(difficulty) ==
    IF difficulty = "medium" THEN 12
    ELSE IF difficulty = "advanced" THEN 15
    ELSE IF difficulty = "expert" THEN 20
    ELSE 10

ClaimedMastery(score, difficulty) ==
    IF score * ClaimedMultiplier(difficulty) <= 1000
    THEN score * ClaimedMultiplier(difficulty) ELSE 1000

\* C3 as stated: for every score and every difficulty label given to
\* analyze, the mastery_level of the record lies in [0.0, 1.0] (0..1000
\* thousandths) and equals min(score * multiplier / 100, 1.0), the
\* multiplier being 1.0 for beginner, 1.2 for medium, 1.5 for advanced, 2.0
\* for expert and 1.0 for any other label.
C3_MasteryInUnitInterval ==
    IsCall(call, "analyze_performance") =>
        /\ call.result.mastery_level >= 0
        /\ call.result.mastery_level <= 1000
        /\ call.result.mastery_level =
               ClaimedMastery(call.args[2].score, call.args[2].difficulty)

\* C3 as amended: for every score and every difficulty label the
\* mastery_level equals min(score * multiplier / 100, 1.0) with that table
\* and never exceeds 1.0; it lies in [0.0, 1.0] when the score is not
\* negative, and is negative when the score is; score 100 at 'expert' gives
\* exactly 1.0.
C3_MasteryClampedAbove ==
    IsCall(call, "analyze_performance") =>
        LET score == call.args[2].score
            difficulty == call.args[2].difficulty
            mastery_level == call.result.mastery_level
        IN /\ mastery_level = ClaimedMastery(score, difficulty)
           /\ mastery_level <= 1000
           /\ score >= 0 => mastery_level >= 0
           /\ score < 0 => mastery_level < 0
           /\ (score = 100 /\ difficulty = "expert") => mastery_level = 1000

\* C3 witness: score 100 at difficulty 'expert' was analyzed and the clamp
\* applied.
C3_Witness ==
    /\ IsCall(call, "analyze_performance")
    /\ call.args[2].score = 100
    /\ call.args[2].difficulty = "expert"
    /\ call.result.mastery_level = 1000

\* C7: each successful analyze appends exactly one record, the one it
\* returns, at the end of that student's progress_history and sets that
\* profile's updated_at to the time of the call; the rest of that profile,
\* its earlier records included, and every other profile are unchanged.
C7_AnalyzeAppendsOneRecord ==
    [][IsCall(call', "analyze_performance") =>
        LET s == call'.args[1] IN
        /\ DOMAIN student_profiles' = DOMAIN student_profiles
        /\ s \in DOMAIN student_profiles
        /\ student_profiles'[s].progress_history =
               student_profiles[s].progress_history \o <<call'.result>>
        /\ student_profiles'[s].updated_at = now
        /\ \A f \in DOMAIN student_profiles[s] \ {"progress_history", "updated_at"} :
               student_profiles'[s][f] = student_profiles[s][f]
        /\ \A o \in DOMAIN student_profiles \ {s} :
               student_profiles'[o] = student_profiles[o]]_vars

\* C7 witness: an analyze call has appended a second record to a history
\* while another student also has a profile with a record.
C7_Witness ==
    /\ IsCall(call, "analyze_performance")
    /\ Len(student_profiles[call.args[1]].progress_history) = 2
    /\ \E o \in DOMAIN student_profiles \ {call.args[1]} :
           Len(student_profiles[o].progress_history) = 1

\* C8: create_or_replace on a student id that already has a profile fully
\* replaces it: the stored profile is the returned one, it has the newly
\* supplied fields and an empty progress_history.
C8_CreateReplacesProfile ==
    IsCall(call, "create_student_profile") =>
        LET s == call.args[1]
            d == call.args[2]
        IN /\ s \in DOMAIN student_profiles
           /\ student_profiles[s] = call.result
           /\ student_profiles[s].student_id = s
           /\ student_profiles[s].progress_history = <<>>
           /\ \A f \in DOMAIN d : student_profiles[s][f] = d[f]

\* C8 witness: a create call has replaced a profile that had a different
\* learning_style and two history records.
C8_Witness ==
    /\ IsCall(call, "create_student_profile")
    /\ call.replaced /= <<>>
    /\ Len(call.replaced[1].progress_history) = 2
    /\ call.replaced[1].learning_style /= call.args[2].learning_style

-----------------------------------------------------------------------------
(* Claims about the learning-path generator *)

\* the path GET /paths/{student_id}/{subject} finds, as a sequence of
\* length 0 (404) or 1
StoredPath(paths, student_id, subject) ==
    Find(paths, PathKey(student_id, subject))

\* C6: the modules of a generated learning path are the five baseline
\* modules (introduction, fundamentals, practice exercises, advanced
\* concepts, project) in that order, followed by exactly two style modules
\* when learning_style is visual or auditory and by none otherwise: 7 or 5
\* modules in total.
C6_FiveBaselineModulesThenStyle ==
    IsCall(call, "generate_learning_path") =>
        LET style == student_profiles[call.args[1]].learning_style
            subject == call.args[2]
            modules == call.result.modules
        IN /\ Len(modules) = (IF style \in {"visual", "auditory"} THEN 7 ELSE 5)
           /\ [i \in 1..5 |-> modules[i].name] =
                  <<"Introduction to " \o subject,
                    subject \o " Fundamentals",
                    "Practice Exercises - " \o subject,
                    "Advanced " \o subject \o " Concepts",
                    subject \o " Project">>
           /\ style = "visual" =>
                  <<modules[6].type, modules[7].type>> = <<"infographic", "visual">>
           /\ style = "auditory" =>
                  <<modules[6].type, modules[7].type>> = <<"audio", "podcast">>

\* C9: learning paths are stored per (student_id, subject) pair: generating
\* a path for a pair replaces the path stored for that pair and leaves the
\* stored path of every other pair unchanged and still retrievable.
C9_PathsKeyedByPair ==
    [][IsCall(call', "generate_learning_path") =>
        LET s == call'.args[1]
            subject == call'.args[2]
        IN /\ StoredPath(learning_paths', s, subject) = <<call'.result>>
           /\ \A s2 \in StudentIds, subject2 \in Subjects :
                  <<s2, subject2>> /= <<s, subject>> =>
                      StoredPath(learning_paths', s2, subject2) =
                          StoredPath(learning_paths, s2, subject2)]_vars

-----------------------------------------------------------------------------
(* Claims about the recommendation ranker *)

\* the titles and the relevance scores of the merged list, in merge order:
\* interests, weaknesses, the two activities, the peer suggestion
MergedTitles(profile) ==
    [i \in 1..Len(profile.interests) |-> "Advanced " \o profile.interests[i]]
    \o [i \in 1..Len(profile.weaknesses) |-> "Master " \o profile.weaknesses[i]]
    \o <<"Collaborative Project", "Quiz Challenge", "Study Group">>

MergedScores(profile) ==
    [i \in 1..Len(profile.interests) |-> 90]
    \o [i \in 1..Len(profile.weaknesses) |-> 85]
    \o <<80, 75, 70>>

FirstTen(s) == SubSeq(s, 1, IF Len(s) < 10 THEN Len(s) ELSE 10)

\* C1: recommend returns at most 10 items whose relevance_score is
\* non-increasing, and the result is the first 10 (or fewer) entries of a
\* stable descending sort of the merged list: items of equal score keep their
\* merge order, so every interest item (0.90) precedes every weakness item
\* (0.85).  The merged list is already in descending order, so its stable
\* sort is the merged list itself.
C1_TopTenStableDescending ==
    IsCall(call, "get_recommendations") =>
        LET profile == student_profiles[call.args[1]]
            r == call.result
        IN /\ Len(r) <= 10
           /\ \A i, j \in 1..Len(r) :
                  i < j => r[i].relevance_score >= r[j].relevance_score
           /\ [i \in 1..Len(r) |-> r[i].title] = FirstTen(MergedTitles(profile))
           /\ [i \in 1..Len(r) |-> r[i].relevance_score] =
                  FirstTen(MergedScores(profile))
           /\ \A i, j \in 1..Len(r) :
                  (r[i].relevance_score = 90 /\ r[j].relevance_score = 85) => i < j

\* C1 witness: a recommend call on a profile with at least two interests and
\* two weaknesses whose merged list is longer than 10 returned 10 items.
C1_Witness ==
    /\ IsCall(call, "get_recommendations")
    /\ Len(student_profiles[call.args[1]].interests) >= 2
    /\ Len(student_profiles[call.args[1]].weaknesses) >= 2
    /\ Len(MergedTitles(student_profiles[call.args[1]])) > 10
    /\ Len(call.result) = 10

-----------------------------------------------------------------------------
(* Claims about the art gallery *)

\* likes*2 + views*0.1 of the claim, in tenths
ClaimedPopularity(art) == (2 * 10 * art.likes) + art.views

\* the position of a returned piece in the gallery's own order
GalleryPosition(art) == IndexOf(art_gallery, art.id)

\* the items of a popular result are pieces of the gallery, in descending
\* order of likes*2 + views*0.1, pieces of equal score in gallery order
RankedByPopularity(r) ==
    /\ \A i \in 1..Len(r) :
           /\ r[i].id \in Keys(art_gallery)
           /\ r[i] = Get(art_gallery, r[i].id)
    /\ \A i, j \in 1..Len(r) :
           i < j =>
               /\ ClaimedPopularity(r[i]) >= ClaimedPopularity(r[j])
               /\ ClaimedPopularity(r[i]) = ClaimedPopularity(r[j])
                      => GalleryPosition(r[i]) < GalleryPosition(r[j])

\* C2 as stated: for every gallery state and every limit, popular(limit)
\* returns no more than limit items, ordered by likes*2 + views*0.1
\* descending, and pieces of equal score keep the relative order they have in
\* the gallery.
C2_PopularAtMostLimitRanked ==
    IsCall(call, "get_popular_art") =>
        /\ Len(call.result) <= call.args[1]
        /\ RankedByPopularity(call.result)

\* C2 amended: for every gallery state, popular(limit) returns no more than
\* limit items when limit >= 0 and, when limit < 0, the whole ranking without
\* its last -limit items; in both cases the items are ordered by
\* likes*2 + views*0.1 descending and pieces of equal score keep the relative
\* order they have in the gallery.
C2_PopularSliceRanked ==
    IsCall(call, "get_popular_art") =>
        LET limit == call.args[1]
            n == Len(art_gallery)
        IN /\ limit >= 0 => Len(call.result) <= limit
           /\ limit < 0 =>
                  Len(call.result) = (IF n + limit > 0 THEN n + limit ELSE 0)
           /\ RankedByPopularity(call.result)

\* popular(1) on a gallery of two pieces returned the second piece of the
\* gallery, the only one with a like
C2_Witness ==
    /\ IsCall(call, "get_popular_art")
    /\ call.args[1] = 1
    /\ Len(art_gallery) = 2
    /\ Len(call.result) = 1
    /\ call.result[1].id = art_gallery[2].key
    /\ call.result[1].likes = 1
    /\ art_gallery[1].value.views > 0

\* C4: each successful view(art_id, user) increases that piece's views by
\* exactly 1 and changes nothing else: likes, featured, updated_at and every
\* other field of the piece, every other art piece, the generation history
\* and the collections stay as they were, so two view calls add exactly 2.
C4_ViewAddsOneViewOnly ==
    [][IsCall(call', "view_art") =>
           LET art_id == call'.args[1] IN
           /\ art_id \in Keys(art_gallery)
           /\ Keys(art_gallery') = Keys(art_gallery)
           /\ Len(art_gallery') = Len(art_gallery)
           /\ \A k \in Keys(art_gallery) :
                  /\ IndexOf(art_gallery', k) = IndexOf(art_gallery, k)
                  /\ k # art_id => Get(art_gallery', k) = Get(art_gallery, k)
           /\ Get(art_gallery', art_id).views = Get(art_gallery, art_id).views + 1
           /\ \A f \in DOMAIN Get(art_gallery, art_id) \ {"views"} :
                  Get(art_gallery', art_id)[f] = Get(art_gallery, art_id)[f]
           /\ DOMAIN Get(art_gallery', art_id) = DOMAIN Get(art_gallery, art_id)
           /\ generation_history' = generation_history
           /\ collections' = collections
           /\ learnVars' = learnVars]_vars

\* the second view of a liked and featured piece, in a gallery of two pieces
C4_Witness ==
    /\ IsCall(call, "view_art")
    /\ Len(art_gallery) = 2
    /\ LET art_piece == Get(art_gallery, call.args[1])
       IN /\ art_piece.views = 2
          /\ art_piece.likes = 1
          /\ art_piece.featured
          /\ art_piece.updated_at # <<>>
          /\ art_piece.updated_at[1] < now

\* the requested ids that are in a set of ids, in the order requested
RECURSIVE KeepIn(_, _)
KeepIn(requested, ids) ==
    IF requested = <<>> THEN <<>>
    ELSE (IF Head(requested) \in ids THEN <<Head(requested)>> ELSE <<>>)
             \o KeepIn(Tail(requested), ids)

\* C5: create(name, description, art_ids, owner) returns a collection whose
\* art_ids are exactly those requested ids that are keys of the gallery at
\* the moment of creation; ids not in the gallery are dropped and no error is
\* raised, whatever mix of valid and invalid ids is requested.
C5_CollectionKeepsGalleryIds ==
    call.op = "create_collection" =>
        /\ ~call.raised
        /\ call.result.art_ids = KeepIn(call.args[3], Keys(art_gallery))
        /\ Range(call.result.art_ids) = Range(call.args[3]) \cap Keys(art_gallery)

\* a collection made from ids of which some are in the gallery and some are
\* not
C5_Witness ==
    /\ IsCall(call, "create_collection")
    /\ call.result.art_ids # <<>>
    /\ Range(call.args[3]) \ Keys(art_gallery) # {}
    /\ Len(call.result.art_ids) < Len(call.args[3])

\* C10: every generate call stores its new piece under an id that no piece
\* already in the gallery has: after n generate calls the gallery holds n
\* distinct pieces, and no earlier piece is replaced.
C10_GenerateNeverReplaces ==
    /\ Len(art_gallery) = Len(generation_history)
    /\ Cardinality(Keys(art_gallery)) = Len(generation_history)
    /\ IsCall(call, "generate_art") => call.replaced = <<>>

\* C11: popularity_score is a derived read value that is not persisted: a
\* popular(limit) call leaves every stored ArtPiece record of the gallery
\* exactly as it was before the call.
C11_PopularLeavesGalleryUnchanged ==
    [][IsCall(call', "get_popular_art") => art_gallery' = art_gallery]_vars

-----------------------------------------------------------------------------
(* Claims about the HTTP layer *)

\* the number of answered requests of a route on a target that succeeded
Completed(route, target) ==
    Cardinality({i \in 1..Len(requests.answered) :
                    /\ requests.answered[i].request.route = route
                    /\ requests.answered[i].request.target = target
                    /\ requests.answered[i].status = 200})

\* C12: no update is lost when requests for the same entity are served
\* concurrently: after k like requests on one art id have completed its likes
\* has grown by exactly k, likewise views for view requests and the length of
\* progress_history for analyze requests on one student id, in whatever
\* order the requests in flight are handled.
C12_NoLostUpdate ==
    /\ \A art_id \in Keys(art_gallery) :
           /\ Get(art_gallery, art_id).likes = Completed("like_art_piece", art_id)
           /\ Get(art_gallery, art_id).views = Completed("view_art_piece", art_id)
    /\ \A art_id \in {"art_missing"} \ Keys(art_gallery) :
           Completed("like_art_piece", art_id) = 0
    /\ \A student_id \in DOMAIN student_profiles :
           Len(student_profiles[student_id].progress_history)
               = Completed("analyze_performance", student_id)

\* two like requests on one piece were in flight together with a third
\* request and were answered in the reverse of the order of their receipt
C12_Witness ==
    /\ Len(requests.answered) = 2
    /\ Len(requests.inflight) = 1
    /\ requests.inflight[1].seq = 1
    /\ requests.answered[1].seq = 3
    /\ requests.answered[2].seq = 2
    /\ \A i \in 1..2 :
           /\ requests.answered[i].request.route = "like_art_piece"
           /\ requests.answered[i].request.target = GenerationId(0)
           /\ requests.answered[i].status = 200
    /\ Get(art_gallery, GenerationId(0)).likes = 2

-----------------------------------------------------------------------------
(* Claims about the learning engine as a whole *)

\* the operations of the engine that need an existing profile
ProfileReaders ==
    {"analyze_performance", "generate_learning_path", "get_recommendations",
     "predict_outcomes"}

\* C13: analyze, learning-path generate, recommend and predict_outcomes,
\* when called with a student id that has no profile, each fail with
\* NotFound and leave the profile store and the learning-path store
\* unchanged.
C13_AbsentStudentNotFound ==
    [][(/\ call'.op \in ProfileReaders
        /\ call'.args[1] \notin DOMAIN student_profiles)
           => /\ call'.raised
              /\ Status(call') = 404
              /\ student_profiles' = student_profiles
              /\ learning_paths' = learning_paths]_vars

\* a learning path was asked for a student without a profile while another
\* student has a profile, a history and a stored path
C13_Witness ==
    /\ call.op = "generate_learning_path"
    /\ call.raised
    /\ call.args[1] \notin DOMAIN student_profiles
    /\ \E s \in DOMAIN student_profiles :
           /\ student_profiles[s].progress_history # <<>>
           /\ PathKey(s, "history") \in DOMAIN learning_paths

-----------------------------------------------------------------------------
(* Claims about the writes of the art gallery *)

\* C14: on an art id that is not in the gallery, like and view raise NotFound
\* while update and feature return null without raising, and in all four
\* cases the gallery is left unchanged; on a present id, like, update and
\* feature each set updated_at and view does not.
C14_AbsentAndUpdatedAt ==
    [][call'.op \in {"like_art", "view_art", "update_art_piece", "feature_art"}
           => LET art_id == call'.args[1] IN
              IF art_id \notin Keys(art_gallery)
              THEN /\ art_gallery' = art_gallery
                   /\ call'.op \in {"like_art", "view_art"} => call'.raised
                   /\ call'.op \in {"update_art_piece", "feature_art"} =>
                          ~call'.raised /\ call'.result = <<>>
              ELSE /\ ~call'.raised
                   /\ art_id \in Keys(art_gallery')
                   /\ call'.op # "view_art" =>
                          Get(art_gallery', art_id).updated_at = <<now>>
                   /\ call'.op = "view_art" =>
                          Get(art_gallery', art_id).updated_at
                              = Get(art_gallery, art_id).updated_at]_vars

\* update returned null for an id the gallery does not hold, next to a piece
\* that was written to in an earlier second
C14_Witness ==
    /\ call.op = "update_art_piece"
    /\ ~call.raised
    /\ call.result = <<>>
    /\ call.args[1] \notin Keys(art_gallery)
    /\ \E k \in Keys(art_gallery) :
           /\ Get(art_gallery, k).updated_at # <<>>
           /\ Get(art_gallery, k).updated_at[1] < now
           /\ Get(art_gallery, k).views > 0

-----------------------------------------------------------------------------
(* Claims about the connector of the AI hub *)

HubListOperations == {"get_learning_recommendations", "get_personalized_content"}
HubDictOperations == {"analyze_learning_pattern", "predict_learning_outcomes"}

\* a response carries the marker: a dict has source = "fallback", and every
\* item of a list has
MarkedFallback(op, result) ==
    IF op \in HubListOperations
    THEN \A i \in 1..Len(result) :
             "source" \in DOMAIN result[i] /\ result[i].source = "fallback"
    ELSE "source" \in DOMAIN result /\ result.source = "fallback"

\* C15: for each of the four AI-hub operations and for every input, a
\* transport failure or timeout of the hub call is never surfaced as an
\* error: the operation returns a locally computed fallback response, and
\* that response carries the marker source = "fallback".
C15_HubFailureGivesMarkedFallback ==
    (/\ call.op \in HubListOperations \cup HubDictOperations
     /\ call.args[Len(call.args)] = "RequestException")
        => /\ ~call.raised
           /\ MarkedFallback(call.op, call.result)

-----------------------------------------------------------------------------
(* Claims about the listing of the art gallery *)

\* the keys of the pieces that satisfy every supplied filter at once
Satisfying(g, filters) ==
    {k \in Keys(g) :
        LET art == Get(g, k) IN
        /\ "style" \in DOMAIN filters => art.style = filters.style
        /\ "user_id" \in DOMAIN filters => art.user_id = filters.user_id
        /\ "featured" \in DOMAIN filters => art.featured = filters.featured
        /\ "tags" \in DOMAIN filters => Range(filters.tags) \subseteq BagToSet(art.tags)}

\* C16: list(filters) returns exactly the gallery pieces that satisfy every
\* supplied filter at once (style equal, owner equal, featured flag equal,
\* tags containing all requested tags), ordered by created_at from newest to
\* oldest; with no filter it returns every piece, and it never modifies the
\* gallery.
C16_ListingFilteredNewestFirst ==
    [][IsCall(call', "get_gallery") =>
           LET filters == call'.args[1]
               r == call'.result
           IN /\ art_gallery' = art_gallery
              /\ {r[i].id : i \in 1..Len(r)} = Satisfying(art_gallery, filters)
              /\ Len(r) = Cardinality(Satisfying(art_gallery, filters))
              /\ \A i \in 1..Len(r) : r[i] = Get(art_gallery, r[i].id)
              /\ \A i, j \in 1..Len(r) :
                     i < j => r[i].created_at >= r[j].created_at
              /\ filters = <<>> => Len(r) = Len(art_gallery)]_vars

\* a listing under a style and a two-tag filter that kept the newest of two
\* pieces only, the older one lacking one of the tags after an update
C16_Witness ==
    /\ IsCall(call, "get_gallery")
    /\ DOMAIN call.args[1] = {"style", "tags"}
    /\ Len(call.args[1].tags) = 2
    /\ Len(art_gallery) = 2
    /\ Len(call.result) = 1
    /\ call.result[1].id = art_gallery[2].key
    /\ art_gallery[1].value.style = call.args[1].style

-----------------------------------------------------------------------------
(* Claims about the content of the recommendations *)

\* C17: for a profile with i interests and w weaknesses where i + w + 3 <= 10,
\* recommend returns exactly i + w + 3 items in this order: one item per
\* interest in profile order, one per weakness in profile order, then the two
\* fixed activity items (0.80 then 0.75), then the fixed peer item (0.70).
C17_RecommendationsInMergeOrder ==
    IsCall(call, "get_recommendations") =>
        LET profile == student_profiles[call.args[1]]
            i == Len(profile.interests)
            w == Len(profile.weaknesses)
            r == call.result
        IN i + w + 3 <= 10 =>
               /\ Len(r) = i + w + 3
               /\ \A k \in 1..i :
                      /\ r[k].type = "content"
                      /\ r[k].title = "Advanced " \o profile.interests[k]
                      /\ r[k].relevance_score = 90
               /\ \A k \in 1..w :
                      /\ r[i + k].type = "content"
                      /\ r[i + k].title = "Master " \o profile.weaknesses[k]
                      /\ r[i + k].relevance_score = 85
               /\ r[i + w + 1].type = "activity"
               /\ r[i + w + 1].relevance_score = 80
               /\ r[i + w + 2].type = "activity"
               /\ r[i + w + 2].relevance_score = 75
               /\ r[i + w + 3].type = "peer"
               /\ r[i + w + 3].relevance_score = 70

\* recommend on a profile with 2 interests and 1 weakness returned 6 items
C17_Witness ==
    /\ IsCall(call, "get_recommendations")
    /\ Len(student_profiles[call.args[1]].interests) = 2
    /\ Len(student_profiles[call.args[1]].weaknesses) = 1
    /\ Len(call.result) = 6
    /\ call.result[3].title = "Master " \o WeaknessLabel(1)

-----------------------------------------------------------------------------
(* Claims about the tags of a generated piece *)

\* the tags the claim gives a style
ClaimedStyleTags(style) ==
    CASE style = "modern" -> {"contemporary", "minimalist", "clean"}
      [] style = "graffiti" -> {"street_art", "spray_paint", "wall_art"}
      [] style = "eco_art" -> {"environment", "sustainable", "green"}
      [] OTHER -> {}

\* the tags the claim gives a prompt and a style
ClaimedTags(prompt, style) ==
    {style}
    \cup ({Lower(prompt[i]) : i \in 1..Len(prompt)}
          \cap {"city", "urban", "street", "building", "skyline", "modern",
                "contemporary"})
    \cup ClaimedStyleTags(style)

\* C18: the tags of a generated art piece are the style itself, every
\* lower-cased prompt word that is in the urban-keyword list, and the tags of
\* the style, nothing else, each of them once.
C18_TagsAreStyleKeywordsAndStyleTags ==
    IsCall(call, "generate_art") =>
        LET tags == Get(art_gallery, call.result.id).tags
        IN /\ call.result.tags = tags
           /\ BagToSet(tags) = ClaimedTags(call.args[1], call.args[2])
           /\ \A tag \in BagToSet(tags) : CopiesIn(tag, tags) = 1

\* a piece of style modern was generated from a prompt that names the style
\* and twice the keyword city: its tags hold modern and city once each
C18_Witness ==
    /\ IsCall(call, "generate_art")
    /\ call.args[1] = <<"Modern", "city", "City">>
    /\ call.args[2] = "modern"
    /\ BagToSet(call.result.tags)
           = {"modern", "city", "contemporary", "minimalist", "clean"}
    /\ BagCardinality(call.result.tags) = 5

-----------------------------------------------------------------------------
(* Claims about the estimated duration *)

\* the skill levels from the lowest to the highest
SkillLevels == <<"beginner", "intermediate", "advanced", "expert">>

\* the hours the claim gives each skill level
ClaimedDurations == <<60, 40, 32, 24>>

\* C19: the estimated duration of a generated path is 60, 40, 32 and 24 hours
\* for the skill levels beginner, intermediate, advanced and expert, whatever
\* the subject, and so never grows from one skill level to the next.
C19_DurationBySkillLevel ==
    IsCall(call, "generate_learning_path") =>
        LET profile == student_profiles[call.args[1]]
            StoredDuration == call.result.estimated_duration
        IN /\ \A k \in 1..4 :
                  profile.skill_level = SkillLevels[k] =>
                      StoredDuration = ClaimedDurations[k]
           /\ \A k \in 1..3 :
                  _estimate_duration([profile EXCEPT !.skill_level = SkillLevels[k]],
                                     call.args[2])
                      >= _estimate_duration(
                             [profile EXCEPT !.skill_level = SkillLevels[k + 1]],
                             call.args[2])

\* a path was generated for a student of skill level advanced: 32 hours
C19_Witness ==
    /\ IsCall(call, "generate_learning_path")
    /\ student_profiles[call.args[1]].skill_level = "advanced"
    /\ call.result.estimated_duration = 32

-----------------------------------------------------------------------------
(* Claims about the operations that read a profile *)

\* C20: learning-path generate, recommend and predict_outcomes leave every
\* stored profile unchanged, all fields with progress_history and updated_at;
\* of the operations that take an existing profile only analyze modifies it.
C20_OnlyAnalyzeModifiesProfiles ==
    [][/\ call'.op \in {"generate_learning_path", "get_recommendations",
                        "predict_outcomes"}
           => student_profiles' = student_profiles
       /\ IsCall(call', "analyze_performance")
           => LET s == call'.args[1] IN
              /\ student_profiles'[s] # student_profiles[s]
              /\ \A other \in DOMAIN student_profiles \ {s} :
                     student_profiles'[other] = student_profiles[other]]_vars

\* outcomes were predicted for a student whose profile holds an analysis
C20_Witness ==
    /\ IsCall(call, "predict_outcomes")
    /\ student_profiles[call.args[1]].progress_history # <<>>
    /\ Cardinality(DOMAIN student_profiles) = 2

-----------------------------------------------------------------------------
(* Claims about the history of a profile over time *)

\* s is t or the beginning of t
IsPrefix(s, t) == Len(s) <= Len(t) /\ SubSeq(t, 1, Len(s)) = s

\* C21, as stated: in every step of the profile store and of the analyzer,
\* the new progress_history of a student id has the old one of that id as a
\* prefix.
C21_HistoryAppendOnly ==
    [][\A s \in DOMAIN student_profiles :
           /\ s \in DOMAIN student_profiles'
           /\ IsPrefix(student_profiles[s].progress_history,
                       student_profiles'[s].progress_history)]_vars

\* C21, amended: a profile is never removed, and in every step the new
\* progress_history of a student id has the old one of that id as a prefix,
\* except in a create_or_replace on that id, which leaves its history empty.
C21_HistoryAppendOnlyUntilReplaced ==
    [][\A s \in DOMAIN student_profiles :
           /\ s \in DOMAIN student_profiles'
           /\ IF call'.op = "create_student_profile" /\ call'.args[1] = s
              THEN student_profiles'[s].progress_history = <<>>
              ELSE IsPrefix(student_profiles[s].progress_history,
                            student_profiles'[s].progress_history)]_vars

\* a create call has just emptied a history of one record while the other
\* student's history of two records is in place
C21_Witness ==
    /\ IsCall(call, "create_student_profile")
    /\ call.replaced # <<>>
    /\ Len(call.replaced[1].progress_history) = 1
    /\ \E o \in DOMAIN student_profiles \ {call.args[1]} :
           Len(student_profiles[o].progress_history) = 2

-----------------------------------------------------------------------------
(* Claims about every state of the art gallery *)

-----------------------------------------------------------------------------
(* Claims about the analytics engine *)

\* the number of events of a type that a user has inside the window of a
\* metrics call made at time t
InWindowOfType(user_id, days, t, type) ==
    Cardinality({i \in 1..Len(events) :
                    /\ events[i].user_id = user_id
                    /\ events[i].timestamp >= t - days * SecondsPerDay
                    /\ events[i].type = type})

\* C23, as stated: metrics(user_id, days) reports completion_rate as the
\* ratio completed / started of the user's module_completed and
\* module_started events inside the trailing window, and 0 when the window
\* holds no module_started event.
C23_CompletionRateIsRatio ==
    IsCall(call, "calculate_user_metrics") =>
        LET started == InWindowOfType(call.args[1], call.args[2], now,
                                      "module_started")
            completed == InWindowOfType(call.args[1], call.args[2], now,
                                        "module_completed")
            rate == call.result.completion_rate
        IN IF started = 0 THEN rate[1] = 0
           ELSE rate[1] * started = completed * rate[2]

\* C23, amended: metrics(user_id, days) reports completion_rate as the
\* percentage 100 * completed / started of the user's module_completed and
\* module_started events inside the trailing window, and 0 when the window
\* holds no module_started event.
C23_CompletionRateIsPercentage ==
    IsCall(call, "calculate_user_metrics") =>
        LET started == InWindowOfType(call.args[1], call.args[2], now,
                                      "module_started")
            completed == InWindowOfType(call.args[1], call.args[2], now,
                                        "module_completed")
            rate == call.result.completion_rate
        IN IF started = 0 THEN rate[1] = 0
           ELSE rate[1] * started = 100 * completed * rate[2]

\* metrics over a window of 0 days found one started and one completed
\* module while an earlier started module of the user is outside the window
C23_Witness ==
    /\ IsCall(call, "calculate_user_metrics")
    /\ call.args[2] = 0
    /\ call.result.completion_rate = <<100, 1>>
    /\ \E i \in 1..Len(events) :
           /\ events[i].user_id = call.args[1]
           /\ events[i].type = "module_started"
           /\ events[i].timestamp < now

\* C24: the analytics event log is append-only: each track call adds exactly
\* one event, the one it returns, at the end of the log, and no track, metrics
\* or insights call changes, reorders or removes an event already in the log.
C24_EventLogAppendOnly ==
    [][/\ IsCall(call', "track_event") => events' = Append(events, call'.result)
       /\ call'.op \in {"calculate_user_metrics", "generate_insights"}
              => events' = events
       /\ IsPrefix(events, events')]_vars

\* insights were computed for a user with three quiz events, which sorts
\* them, over a log that holds another user's event between them
C24_Witness ==
    /\ IsCall(call, "generate_insights")
    /\ Len(events) = 4
    /\ events[2].user_id # call.args[1]
    /\ \A i \in {1, 3, 4} : /\ events[i].user_id = call.args[1]
                            /\ events[i].type = "quiz_completed"
    /\ events[1].timestamp < events[4].timestamp

\* the scores of a user's quiz_completed events in the order of the log,
\* which is the order of their timestamps; an event without a score counts 0
QuizScores(user_id) ==
    LET IsQuizOfUser(e) == e.user_id = user_id /\ e.type = "quiz_completed"
        quizzes == SelectSeq(events, IsQuizOfUser)
    IN [i \in 1..Len(quizzes) |->
           IF "score" \in DOMAIN quizzes[i].data THEN quizzes[i].data.score ELSE 0]

\* C26: insights(user_id) includes the 'improving' insight exactly when the
\* user has at least 3 quiz_completed events and the average score of the 3
\* latest is strictly greater than the average score of the 3 earliest; with
\* fewer than 3 quiz events it is never included.
C26_ImprovingIffLastThreeBeatFirstThree ==
    IsCall(call, "generate_insights") =>
        LET scores == QuizScores(call.args[1])
            n == Len(scores)
            included == \E i \in 1..Len(call.result) :
                            call.result[i].type = "progress_trend"
        IN /\ n < 3 => ~included
           /\ n >= 3 =>
                  (included <=>
                       scores[n - 2] + scores[n - 1] + scores[n]
                           > scores[1] + scores[2] + scores[3])

\* the insight, and no other, was given for four quiz events of which the
\* first has the low score and the last the high one
C26_Witness ==
    /\ IsCall(call, "generate_insights")
    /\ QuizScores(call.args[1]) = <<40, 90, 40, 90>>
    /\ Len(call.result) = 1
    /\ call.result[1].title = "Improving Performance"

-----------------------------------------------------------------------------
(* Claims about the collection file *)

\* the record of a collection as the file holds it: its fields with the two
\* datetimes as strings
Persisted(collection) ==
    [f \in DOMAIN collection |->
        IF f \in {"created_at", "updated_at"} THEN ToString(collection[f])
        ELSE collection[f]]

\* C25: the collection file holds one record per create call, in call order:
\* each create appends the record of the collection it returns after the
\* records already in the file and leaves those unchanged, the first create,
\* on an absent file, makes a file of exactly that one record, and no other
\* operation writes the file.
C25_CollectionFileAppendsInCallOrder ==
    [][IF IsCall(call', "create_collection")
       THEN /\ collections'.exists
            /\ Len(collections'.records) = Len(collections.records) + 1
            /\ SubSeq(collections'.records, 1, Len(collections.records))
                   = collections.records
            /\ collections'.records[Len(collections'.records)]
                   = Persisted(call'.result)
            /\ ~collections.exists => collections'.records = <<Persisted(call'.result)>>
       ELSE collections' = collections]_vars

\* a second create call has put its record, of another second and of other
\* art ids, after the record of the first
C25_Witness ==
    /\ IsCall(call, "create_collection")
    /\ Len(collections.records) = 2
    /\ collections.records[1].created_at # collections.records[2].created_at
    /\ collections.records[1].art_ids # <<>>
    /\ collections.records[2].art_ids = <<>>

-----------------------------------------------------------------------------
(* Claims about the next difficulty *)

\* the four labels from the easiest to the hardest
NextDifficultyLabels == <<"beginner", "medium", "advanced", "expert">>

\* the place of a label among the four (0 = not one of them)
LabelRank(label) ==
    IF \E k \in 1..4 : NextDifficultyLabels[k] = label
    THEN CHOOSE k \in 1..4 : NextDifficultyLabels[k] = label
    ELSE 0

\* the place of the label the claim gives a mastery level, in thousandths
ClaimedRank(mastery_level) ==
    IF mastery_level < 300 THEN 1
    ELSE IF mastery_level < 600 THEN 2
    ELSE IF mastery_level < 800 THEN 3
    ELSE 4

\* the mastery levels at and next to the thresholds, in thousandths
ThresholdLevels == {0, 299, 300, 301, 599, 600, 601, 799, 800, 801, 1000}

\* C27: the recommended next difficulty of every PerformanceRecord is
\* determined by its mastery_level alone: below 0.3 beginner, below 0.6
\* medium, below 0.8 advanced, otherwise expert; it is always one of those
\* four labels, and of two records the one with the higher mastery_level
\* never has the easier label.
C27_NextDifficultyFromMasteryAlone ==
    \A s \in DOMAIN student_profiles :
        LET history == student_profiles[s].progress_history IN
        /\ \A i \in 1..Len(history) :
               /\ LabelRank(history[i].next_difficulty) \in 1..4
               /\ LabelRank(history[i].next_difficulty)
                      = ClaimedRank(history[i].mastery_level)
        /\ \A i, j \in 1..Len(history) :
               history[i].mastery_level <= history[j].mastery_level =>
                   LabelRank(history[i].next_difficulty)
                       <= LabelRank(history[j].next_difficulty)
        /\ \A i \in 1..Len(history), m \in ThresholdLevels :
               /\ m <= history[i].mastery_level =>
                      LabelRank(_suggest_next_difficulty(m))
                          <= LabelRank(history[i].next_difficulty)
               /\ m >= history[i].mastery_level =>
                      LabelRank(_suggest_next_difficulty(m))
                          >= LabelRank(history[i].next_difficulty)

\* a record of mastery exactly 0.6, got from a score of 50 at difficulty
\* medium, has the label advanced
C27_Witness ==
    /\ IsCall(call, "analyze_performance")
    /\ call.args[2].score = 50
    /\ call.args[2].difficulty = "medium"
    /\ call.result.mastery_level = 600
    /\ call.result.next_difficulty = "advanced"
    /\ student_profiles[call.args[1]].progress_history = <<call.result>>

-----------------------------------------------------------------------------
(* Claims about the assessment plan *)

\* C29: in every generated learning path each of the four assessment points,
\* of weights 0.1, 0.2, 0.3 and 0.4, refers to a module of that same path:
\* its module number lies between 1 and the number of modules of the path,
\* for every learning_style.
C29_AssessmentsReferToModules ==
    IsCall(call, "generate_learning_path") =>
        LET points == call.result.assessment_points
            modules == call.result.modules
        IN /\ [i \in 1..Len(points) |-> points[i].weight] = <<1, 2, 3, 4>>
           /\ \A i \in 1..Len(points) : points[i].module \in 1..Len(modules)

-----------------------------------------------------------------------------
(* Claims about the risk factors of a prediction *)

\* the paths generate has stored
GeneratedPaths == {learning_paths[k] : k \in DOMAIN learning_paths}

\* a prediction lists the risk factor of a long duration
ListsLongDuration(predictions) ==
    \E i \in 1..Len(predictions.risk_factors) :
        predictions.risk_factors[i] = "Long learning duration may impact completion"

\* C30: a learning path produced by generate has an estimated_duration of at
\* most 60 hours, so predict_outcomes on a generated path never lists the
\* long-duration risk factor; that risk factor appears only for a path
\* supplied by the caller, of a duration above 60.
C30_GeneratedPathNeverLong ==
    /\ \A path \in GeneratedPaths : path.estimated_duration <= 60
    /\ IsCall(call, "generate_learning_path") =>
           call.result.estimated_duration <= 60
    /\ IsCall(call, "predict_outcomes") =>
           /\ call.args[2] \in GeneratedPaths => ~ListsLongDuration(call.result)
           /\ ListsLongDuration(call.result) =>
                  /\ call.args[2] \notin GeneratedPaths
                  /\ "estimated_duration" \in DOMAIN call.args[2]
                  /\ call.args[2].estimated_duration > 60

\* outcomes were predicted for a generated path of exactly 60 hours, and the
\* prediction lists no risk factor
C30_Witness ==
    /\ IsCall(call, "predict_outcomes")
    /\ call.args[2] \in GeneratedPaths
    /\ call.args[2].estimated_duration = 60
    /\ call.result.risk_factors = <<>>

=============================================================================
